---- MODULE Spec2Model ----
(***************************************************************************)
(* Model of the document analysis pipeline of Geracao-Report-Automatico:   *)
(* DocumentProcessor.create_chunks (document_processor.py), the analysis   *)
(* strategies of AIAnalyzer (ai_analyzer.py), the DocumentChatbot session  *)
(* (chatbot.py) and the Streamlit entry point (app.py, config.py).         *)
(*                                                                         *)
(* Texts are sequences of one-character strings, so that len(), strip()    *)
(* and re.split() are computed character by character.                     *)
(***************************************************************************)
EXTENDS Integers, Sequences, FiniteSets, TLC

VARIABLES
    \* ---- DocumentProcessor.create_chunks ----
    full_text,          \* text_content['full_text']
    metadata,           \* text_content['metadata']: document_type, total_pages
    max_chunk_size,     \* the max_chunk_size argument
    chunks_out,         \* the returned list of chunks
    cpc,                \* "call" before the call, "done" after it returned
    \* ---- AIAnalyzer.perform_detailed_analysis ----
    a_kind,             \* the analysis_type argument
    a_n,                \* len(chunks), chunks = create_chunks(text_content)
    a_chunks,           \* the texts of those chunks, as runs of one character
    a_document,         \* the document text placed in the prompt of _general_analysis
    a_pc,               \* "call", "await" (an LLM request is outstanding),
                        \* "returned" or "raised"
    a_req,              \* the outstanding request: [what, i]
    a_log,              \* the LLM outcomes received so far, in request order
    summaries,          \* _executive_summary: summaries
    all_lists,          \* _consolidate_summaries: all_points, all_data, all_conclusions
    extracted_data,     \* _data_extraction: extracted_data
    clauses,            \* _clause_analysis: clauses
    events,             \* _timeline_analysis: events
    topics_structure,   \* _topic_analysis: topics_structure
    topic_analyses,     \* _topic_analysis: topic_analyses
    a_result,           \* the value returned by perform_detailed_analysis
    \* ---- DocumentChatbot ----
    documents,          \* self.documents
    chunks,             \* self.chunks
    tfidf_matrix,       \* self.tfidf_matrix, with the vocabulary of self.vectorizer
    conversation_history, \* self.conversation_history
    last_op,            \* the method called last
    folder_arg,         \* the folder of the last process_folder call
    ret_count,          \* what the last process_folder call returned
    asked,              \* the question of the last get_response call
    ret_response,       \* what the last get_response call returned
    llm_requests,       \* the LLM requests the last call issued
    llm_outcome,        \* how the last LLM request ended
    llm_prompt,         \* the prompt of the last LLM request
    query_arg,          \* the query of the last _search_relevant_chunks call
    ret_chunks,         \* what the last _search_relevant_chunks call returned
    ret_stats,          \* what the last get_conversation_stats call returned
    \* ---- app.py ----
    env_key,            \* os.environ["OPENAI_API_KEY"]
    current_file,       \* st.session_state.current_file ("" when unset)
    processing_state,   \* st.session_state.processing_state
    text_content,       \* st.session_state.text_content
    document_analysis,  \* st.session_state.document_analysis
    chatbot_ready,      \* "chatbot" in st.session_state
    app_stages,         \* the pipeline stages the last run of the script entered
    app_outcome,        \* how the last run of the script ended
    app_input           \* the widgets of the last run: mode, file, button pressed

chunkVars == <<full_text, metadata, max_chunk_size, chunks_out, cpc>>

analysisVars == <<a_kind, a_n, a_chunks, a_document, a_pc, a_req, a_log, summaries, all_lists,
                  extracted_data, clauses, events, topics_structure, topic_analyses,
                  a_result>>

chatVars == <<documents, chunks, tfidf_matrix, conversation_history, last_op, folder_arg,
              ret_count, asked, ret_response, llm_requests, llm_outcome, llm_prompt,
              query_arg, ret_chunks, ret_stats>>

appVars == <<env_key, current_file, processing_state, text_content, document_analysis,
             chatbot_ready, app_stages, app_outcome, app_input>>

vars == <<chunkVars, analysisVars, chatVars, appVars>>

----------------------------------------------------------------------------
(* Bounds of the model *)

MaxTextLen == 5
MaxSize == 4

(* Program constants *)

DEFAULT_CHUNK_SIZE == 4000
LargeDocChunkSize == 5000
HugeDocChunkSize == 6000
LargeDocPages == 50
HugeDocPages == 100

----------------------------------------------------------------------------
(* Generic sequence helpers *)

RECURSIVE SeqsUpTo(_, _)
SeqsUpTo(S, n) ==
    IF n = 0 THEN {<<>>}
    ELSE LET shorter == SeqsUpTo(S, n - 1)
         IN  shorter \cup {Append(s, x) : s \in {t \in shorter : Len(t) = n - 1}, x \in S}

Range(s) == {s[i] : i \in 1..Len(s)}

----------------------------------------------------------------------------
(* DocumentProcessor.create_chunks, document_processor.py:168-213 *)

Alphabet == {"a", "b", " ", ".", "?"}
Terminators == {".", "!", "?"}
Whitespace == {" "}

\* re.split(r'[.!?]+', text): the pieces between maximal runs of terminators,
\* the empty pieces at the ends included.
RECURSIVE ReSplitFrom(_, _, _)
ReSplitFrom(t, cur, prevTerm) ==
    IF t = <<>> THEN <<cur>>
    ELSE IF Head(t) \in Terminators
         THEN IF prevTerm THEN ReSplitFrom(Tail(t), cur, TRUE)
              ELSE <<cur>> \o ReSplitFrom(Tail(t), <<>>, TRUE)
         ELSE ReSplitFrom(Tail(t), Append(cur, Head(t)), FALSE)

ReSplit(text) == ReSplitFrom(text, <<>>, FALSE)

\* str.strip(): leading and trailing whitespace removed.
RECURSIVE LStrip(_)
LStrip(s) == IF s # <<>> /\ Head(s) \in Whitespace THEN LStrip(Tail(s)) ELSE s

RECURSIVE RStrip(_)
RStrip(s) ==
    IF s # <<>> /\ s[Len(s)] \in Whitespace THEN RStrip(SubSeq(s, 1, Len(s) - 1)) ELSE s

Strip(s) == RStrip(LStrip(s))

\* The ". " appended after every sentence.
Separator == <<".", " ">>

\* A variant of the widening that starts at the page thresholds themselves.
EffectiveMaxFromThreshold(md, maxArg) ==
    IF md.document_type = "PDF"
    THEN IF md.total_pages >= HugeDocPages THEN HugeDocChunkSize
         ELSE IF md.total_pages >= LargeDocPages THEN LargeDocChunkSize
         ELSE maxArg
    ELSE maxArg

\* Lines 183-188: the maximum is widened for long PDF documents only.
EffectiveMax(md, maxArg) ==
    IF md.document_type = "PDF"
    THEN IF md.total_pages > HugeDocPages THEN HugeDocChunkSize
         ELSE IF md.total_pages > LargeDocPages THEN LargeDocChunkSize
         ELSE maxArg
    ELSE maxArg

\* A variant of the loop body: the sealed buffer is lost when a sentence
\* does not fit.
ChunkStepLosesSealed(st, rawSentence, maxSize) ==
    LET sentence == Strip(rawSentence)
    IN  IF sentence = <<>> THEN st
        ELSE IF Len(st.current_chunk \o sentence) <= maxSize
             THEN [st EXCEPT !.current_chunk = @ \o sentence \o Separator]
             ELSE [chunks |-> st.chunks, current_chunk |-> sentence \o Separator]

\* A variant of the loop body without the skip of lines 197-198: an empty
\* sentence candidate is added like any other.
ChunkStepKeepsEmpty(st, rawSentence, maxSize) ==
    LET sentence == Strip(rawSentence)
    IN  IF Len(st.current_chunk \o sentence) <= maxSize
        THEN [st EXCEPT !.current_chunk = @ \o sentence \o Separator]
        ELSE [chunks |-> IF st.current_chunk # <<>>
                         THEN Append(st.chunks, Strip(st.current_chunk))
                         ELSE st.chunks,
              current_chunk |-> sentence \o Separator]

\* One iteration of the loop of lines 195-207 on the state
\* [chunks, current_chunk].
ChunkStep(st, rawSentence, maxSize) ==
    LET sentence == Strip(rawSentence)
    IN  IF sentence = <<>> THEN st
        ELSE IF Len(st.current_chunk \o sentence) <= maxSize
             THEN [st EXCEPT !.current_chunk = @ \o sentence \o Separator]
             ELSE [chunks |-> IF st.current_chunk # <<>>
                              THEN Append(st.chunks, Strip(st.current_chunk))
                              ELSE st.chunks,
                   current_chunk |-> sentence \o Separator]

RECURSIVE ChunkLoop(_, _, _)
ChunkLoop(st, sentences, maxSize) ==
    IF sentences = <<>> THEN st
    ELSE ChunkLoop(ChunkStep(st, Head(sentences), maxSize), Tail(sentences), maxSize)

\* create_chunks(text_content, max_chunk_size)
CreateChunks(text, md, maxArg) ==
    LET maxSize == EffectiveMax(md, maxArg)
        st == ChunkLoop([chunks |-> <<>>, current_chunk |-> <<>>], ReSplit(text), maxSize)
    IN  IF st.current_chunk # <<>>
        THEN Append(st.chunks, Strip(st.current_chunk))
        ELSE st.chunks

Texts == SeqsUpTo(Alphabet, MaxTextLen)

Metadatas ==
    { [document_type |-> "Word Document", total_pages |-> 0],
      [document_type |-> "PDF", total_pages |-> LargeDocPages],
      [document_type |-> "PDF", total_pages |-> LargeDocPages + 1],
      [document_type |-> "PDF", total_pages |-> HugeDocPages + 1] }

----------------------------------------------------------------------------
(* JSON values as json.loads returns them, and the Python operations the   *)
(* analyzer applies to them.  A value is [t, v]: t is "obj" (v a function  *)
(* from keys), "list" (v a sequence of values), "str", "num" or "null".    *)

JStr(s) == [t |-> "str", v |-> s]
JNum(n) == [t |-> "num", v |-> n]
JNull == [t |-> "null", v |-> 0]
JList(items) == [t |-> "list", v |-> items]
JObj(f) == [t |-> "obj", v |-> f]
EmptyObj == JObj(<<>>)

\* An LLM request ends in a transport failure, in text json.loads rejects,
\* or in text that parses to a JSON value.
TransportFailure == [t |-> "fail", v |-> 0]
Unparseable == [t |-> "text", v |-> 0]
Json(j) == [t |-> "json", v |-> j]

\* The request raised inside the try block before a value was parsed.
NoValue(resp) == resp.t \in {"fail", "text"}

\* hash(x) succeeds: lists and dicts are unhashable.
Hashable(j) == j.t \in {"str", "num", "null"}

\* list.extend(x) and "for y in x" succeed.  The responses modelled hold
\* lists, numbers and nulls in these places (Python would also iterate a
\* string or a dict).
Iterable(j) == j.t = "list"

\* x.get(key, default) of a dict; only a dict has .get.
HasGet(j) == j.t = "obj"
Get(j, key, default) == IF key \in DOMAIN j.v THEN j.v[key] ELSE default

\* "key in x" raises TypeError on a number or None.
ContainsRaises(j) == j.t \in {"num", "null"}
Contains(j, key) ==
    IF j.t = "obj" THEN key \in DOMAIN j.v
    ELSE \E i \in 1..Len(j.v) : j.v[i].t = "str" /\ j.v[i].v = key

----------------------------------------------------------------------------
(* AIAnalyzer, ai_analyzer.py *)

ExecutiveSummary == "Resumo Executivo"
TopicAnalysis == "Analise por Topicos"
DataExtraction == "Extracao de Dados"
ClauseAnalysis == "Analise de Clausulas"
TimelineAnalysis == "Timeline de Eventos"
ComparativeAnalysis == "Analise Comparativa"

FixedKinds == {ExecutiveSummary, TopicAnalysis, DataExtraction, ClauseAnalysis,
               TimelineAnalysis}
\* Labels that are none of the five kinds: two of the interface's, and the
\* first kind written without its capitals.
CustomKinds == {ComparativeAnalysis, "Analise de Riscos", "resumo executivo"}

Kinds == FixedKinds \cup CustomKinds

MaxChunks == 3

NoRequest == [what |-> "none", i |-> 0]
Request(what, i) == [what |-> what, i |-> i]

NoResult == [status |-> "none"]
Returned(value) == [status |-> "returned", value |-> value]
Raised == [status |-> "raised"]

ErrorResult(msg) == [error |-> msg]
IsError(result) == "error" \in DOMAIN result

\* ---- _data_extraction, lines 209-266 ----

Categories == <<"dates", "numbers", "percentages", "currencies", "names",
                "locations", "organizations">>

EmptyExtracted == [k \in Range(Categories) |-> <<>>]

\* Lines 252-254: the categories are merged in order; an error raised at
\* one category leaves the categories merged before it in place.
RECURSIVE MergeFrom(_, _, _)
MergeFrom(ed, chunk_data, k) ==
    IF k > Len(Categories) THEN [ed |-> ed, raised |-> FALSE]
    ELSE LET key == Categories[k]
         IN  IF ContainsRaises(chunk_data) THEN [ed |-> ed, raised |-> TRUE]
             ELSE IF ~Contains(chunk_data, key) THEN MergeFrom(ed, chunk_data, k + 1)
             ELSE IF chunk_data.t # "obj" THEN [ed |-> ed, raised |-> TRUE]
             ELSE IF ~Iterable(chunk_data.v[key]) THEN [ed |-> ed, raised |-> TRUE]
             ELSE MergeFrom([ed EXCEPT ![key] = @ \o chunk_data.v[key].v],
                            chunk_data, k + 1)

\* Lines 241-257 for one chunk: what extracted_data is after the outcome.
MergeChunk(ed, resp) ==
    IF NoValue(resp) THEN ed ELSE MergeFrom(ed, resp.v, 1).ed

\* Lines 260-261: list(set(...)) raises on an unhashable item.
DedupRaises(ed) ==
    \E key \in DOMAIN ed : \E i \in 1..Len(ed[key]) : ~Hashable(ed[key][i])

\* The lists that hold each member of S once: list(set(...)) yields one of
\* them, in an order the hashing decides.
Orderings(S) ==
    {s \in SeqsUpTo(S, Cardinality(S)) : Len(s) = Cardinality(S) /\ Range(s) = S}

\* A variant of the loop of lines 260-261 that leaves the lists as merged.
DedupKeepsRepeats(ed) == {ed}

\* Lines 260-261, category by category: what extracted_data can be after
\* the loop.
Dedup(ed) ==
    LET RECURSIVE From(_, _)
        From(d, k) ==
            IF k > Len(Categories) THEN {d}
            ELSE UNION {From([d EXCEPT ![Categories[k]] = o], k + 1) :
                          o \in Orderings(Range(d[Categories[k]]))}
    IN  From(ed, 1)

DataResult(ed) ==
    [analysis_type |-> DataExtraction, extracted_data |-> ed]

DataResponses ==
    { TransportFailure, Unparseable,
      Json(JObj([dates |-> JList(<<JStr("2024-01-01")>>),
                 numbers |-> JList(<<JStr("42")>>)])),
      Json(JObj([dates |-> JList(<<JStr("2024-01-01"), JStr("2025-12-31")>>)])),
      Json(JObj([dates |-> JList(<<JStr("2030-06-30")>>), numbers |-> JNum(7)])),
      Json(JObj([names |-> JList(<<JObj([first |-> JStr("Ana")])>>)])),
      Json(JList(<<>>)),
      Json(JNum(7)) }

\* ---- _timeline_analysis, lines 308-348 ----

\* The date strings of the modelled responses, in lexical order; "" is the
\* default key of an event without a date.
DateOrder == <<"", "2024-01-15", "2024-02-10", "2024-03-01">>

DateRank(s) == CHOOSE i \in 1..Len(DateOrder) : DateOrder[i] = s

\* a < b between two sort keys of the same type.
KeyLess(a, b) ==
    IF a.t = "str" THEN DateRank(a.v) < DateRank(b.v) ELSE a.v < b.v

SortKey(x) == Get(x, "date", JStr(""))

\* Line 344 raises when an event has no .get, or when two sort keys cannot
\* be compared with <.
SortRaises(evs) ==
    \/ \E i \in 1..Len(evs) : ~HasGet(evs[i])
    \/ /\ Len(evs) >= 2
       /\ ~ \/ \A i \in 1..Len(evs) : SortKey(evs[i]).t = "str"
            \/ \A i \in 1..Len(evs) : SortKey(evs[i]).t = "num"

\* list.sort(key=...) is stable: x goes after every element not greater.
RECURSIVE InsertSorted(_, _)
InsertSorted(sorted, x) ==
    IF sorted = <<>> THEN <<x>>
    ELSE IF KeyLess(SortKey(x), SortKey(Head(sorted)))
         THEN <<x>> \o sorted
         ELSE <<Head(sorted)>> \o InsertSorted(Tail(sorted), x)

RECURSIVE SortByDate(_)
SortByDate(evs) ==
    IF evs = <<>> THEN <<>>
    ELSE InsertSorted(SortByDate(SubSeq(evs, 1, Len(evs) - 1)), evs[Len(evs)])

\* Lines 326-338 for one chunk: what events is after the outcome.
ExtendEvents(evs, resp) ==
    IF NoValue(resp) \/ ~HasGet(resp.v) THEN evs
    ELSE LET got == Get(resp.v, "events", JList(<<>>))
         IN  IF Iterable(got) THEN evs \o got.v ELSE evs

\* A variant of the result of lines 343-348 without the sort of line 344.
TimelineResultUnsorted(evs) ==
    [analysis_type |-> TimelineAnalysis, timeline |-> evs]

TimelineResult(evs) ==
    [analysis_type |-> TimelineAnalysis, timeline |-> SortByDate(evs)]

Event(date, importance) ==
    JObj([date |-> date, event |-> JStr("evento"), importance |-> JStr(importance)])

TimelineResponses ==
    { TransportFailure, Unparseable,
      Json(JObj([events |-> JList(<<Event(JStr("2024-03-01"), "alta")>>)])),
      Json(JObj([events |-> JList(<<Event(JStr("2024-02-10"), "media"),
                                    Event(JStr("2024-01-15"), "baixa")>>)])),
      Json(JObj([events |-> JList(<<Event(JNum(2024), "alta")>>)])),
      Json(JObj([events |-> JList(<<JStr("2024-01-15")>>)])),
      Json(JObj([events |-> JNum(0)])),
      Json(EmptyObj),
      Json(JList(<<>>)) }

\* ---- _executive_summary, lines 116-161, and _consolidate_summaries, lines 427-482 ----

\* Lines 152-158: the summary appended when the chunk's request failed.
FallbackSummary(i) ==
    JObj([main_points |-> JList(<<JStr("Resumo do trecho " \o ToString(i))>>),
          important_data |-> JList(<<>>),
          conclusions |-> JList(<<>>)])

\* Lines 141-158 for chunk i: the summary appended to summaries.
ChunkSummary(resp, i) == IF NoValue(resp) THEN FallbackSummary(i) ELSE resp.v

SummaryFields == <<"main_points", "important_data", "conclusions">>

EmptyLists == [f \in Range(SummaryFields) |-> <<>>]

\* Lines 434-437, outside any try block: summary.get raises on a summary
\* that is no dict, extend raises on a field that cannot be iterated.
RECURSIVE CollectFrom(_, _)
CollectFrom(lists, rest) ==
    IF rest = <<>> THEN [lists |-> lists, raised |-> FALSE]
    ELSE LET summary == Head(rest)
             field(f) == Get(summary, f, JList(<<>>))
         IN  IF ~HasGet(summary) THEN [lists |-> lists, raised |-> TRUE]
             ELSE IF \E f \in Range(SummaryFields) : ~Iterable(field(f))
                  THEN [lists |-> lists, raised |-> TRUE]
                  ELSE CollectFrom([f \in Range(SummaryFields) |-> lists[f] \o field(f).v],
                                   Tail(rest))

Collect(sums) == CollectFrom(EmptyLists, sums)

Min(a, b) == IF a < b THEN a ELSE b

FirstN(s, n) == SubSeq(s, 1, IF Len(s) < n THEN Len(s) ELSE n)

KeyFindingsLimit == 5
MetricsLimit == 5
ConclusionsLimit == 3

\* A variant of the default of lines 474-482 with one limit for the three
\* lists.
DefaultConsolidatedOneLimit(lists) ==
    [analysis_type |-> ExecutiveSummary,
     executive_summary |-> "Resumo nao disponivel devido a erro de processamento",
     key_findings |-> FirstN(lists["main_points"], KeyFindingsLimit),
     important_metrics |-> FirstN(lists["important_data"], KeyFindingsLimit),
     recommendations |-> <<>>,
     main_conclusions |-> FirstN(lists["conclusions"], KeyFindingsLimit)]

\* Lines 474-482: the default synthesised when consolidation fails.
DefaultConsolidated(lists) ==
    [analysis_type |-> ExecutiveSummary,
     executive_summary |-> "Resumo nao disponivel devido a erro de processamento",
     key_findings |-> FirstN(lists["main_points"], KeyFindingsLimit),
     important_metrics |-> FirstN(lists["important_data"], MetricsLimit),
     recommendations |-> <<>>,
     main_conclusions |-> FirstN(lists["conclusions"], ConclusionsLimit)]

\* Lines 469-471: the parsed record, tagged with the analysis type.
Tagged(obj, tag) ==
    [k \in DOMAIN obj.v \cup {"analysis_type"} |->
        IF k = "analysis_type" THEN tag ELSE obj.v[k]]

\* Lines 461-482: item assignment raises on anything but a dict, inside
\* the try block.
Consolidated(resp, lists) ==
    IF NoValue(resp) \/ resp.v.t # "obj" THEN DefaultConsolidated(lists)
    ELSE Tagged(resp.v, ExecutiveSummary)

SummaryResponses ==
    { TransportFailure, Unparseable,
      Json(JObj([main_points |-> JList(<<JStr("p1")>>),
                 important_data |-> JList(<<>>),
                 conclusions |-> JList(<<>>)])),
      Json(JObj([main_points |-> JList(<<JStr("p2"), JStr("p3"), JStr("p4")>>),
                 important_data |-> JList(<<JStr("d1")>>),
                 conclusions |-> JList(<<JStr("c1"), JStr("c2")>>)])),
      Json(JObj([main_points |-> JNum(3)])),
      Json(EmptyObj),
      Json(JList(<<JStr("p1")>>)) }

ConsolidationResponses ==
    { TransportFailure, Unparseable,
      Json(JObj([executive_summary |-> JStr("resumo"),
                 key_findings |-> JList(<<JStr("achado")>>)])),
      Json(JList(<<>>)) }

\* ---- _clause_analysis, lines 268-306 ----

\* Lines 297-298: clause_analysis["section"] = i + 1.
WithSection(obj, i) ==
    [k \in DOMAIN obj.v \cup {"section"} |-> IF k = "section" THEN JNum(i) ELSE obj.v[k]]

\* A variant of lines 288-301 that numbers a record by its place in the list.
AppendClauseByPlace(cls, resp, i) ==
    IF NoValue(resp) \/ resp.v.t # "obj" THEN cls
    ELSE Append(cls, WithSection(resp.v, Len(cls) + 1))

\* Lines 288-301 for chunk i: what clauses is after the outcome.
AppendClause(cls, resp, i) ==
    IF NoValue(resp) \/ resp.v.t # "obj" THEN cls
    ELSE Append(cls, WithSection(resp.v, i))

ClauseResult(cls) == [analysis_type |-> ClauseAnalysis, clauses |-> cls]

ClauseResponses ==
    { TransportFailure, Unparseable,
      Json(JObj([clauses_found |-> JList(<<JStr("clausula")>>),
                 key_terms |-> JList(<<>>)])),
      Json(JObj([section |-> JNum(9)])),
      Json(JList(<<>>)),
      Json(JNum(1)) }

\* ---- _topic_analysis, lines 163-207, and _analyze_single_topic, lines 378-425 ----

\* Line 197: topics_structure["main_topics"] raises unless the response is
\* a dict with that key, and the for loop raises unless it can be iterated.
TopicsUsable(resp) ==
    /\ ~NoValue(resp)
    /\ resp.v.t = "obj"
    /\ "main_topics" \in DOMAIN resp.v.v
    /\ Iterable(resp.v.v["main_topics"])

\* Line 382: topic.lower() raises unless the topic is a string.
TopicUsable(topic) == topic.t = "str"

\* Lines 419-425: the record of a topic whose request failed.
TopicPlaceholder(topic) ==
    JObj([summary |-> JStr("Analise do topico " \o topic),
          key_points |-> JList(<<>>),
          details |-> JList(<<>>),
          related_data |-> JList(<<>>)])

\* Lines 409-425: the record returned for a topic.
SingleTopic(resp, topic) == IF NoValue(resp) THEN TopicPlaceholder(topic) ELSE resp.v

\* topic_analyses[topic] = ...
Assign(d, key, val) == [k \in DOMAIN d \cup {key} |-> IF k = key THEN val ELSE d[k]]

TopicError == ErrorResult("Erro na analise por topicos")

TopicResult(structure, analyses) ==
    [analysis_type |-> TopicAnalysis,
     topics_structure |-> structure,
     topic_analyses |-> analyses]

TopicsResponses ==
    { TransportFailure, Unparseable,
      Json(JObj([main_topics |-> JList(<<JStr("prazo"), JStr("multa")>>),
                 topic_hierarchy |-> EmptyObj])),
      Json(JObj([main_topics |-> JList(<<JStr("prazo"), JNum(7)>>)])),
      Json(JObj([main_topics |-> JList(<<>>)])),
      Json(JObj([main_topics |-> JNull])),
      Json(JObj([topic_hierarchy |-> EmptyObj])),
      Json(JList(<<>>)) }

TopicResponses ==
    { TransportFailure, Unparseable,
      Json(JObj([summary |-> JStr("resumo"), key_points |-> JList(<<JStr("ponto")>>)])),
      Json(JList(<<>>)) }

\* ---- _general_analysis, lines 350-376 ----

GeneralLimit == 8000

\* A text as runs of one character: Run("a", 3) stands for "aaa".
Run(c, n) == [c |-> c, n |-> n]

RECURSIVE TextLen(_)
TextLen(runs) == IF runs = <<>> THEN 0 ELSE Head(runs).n + TextLen(Tail(runs))

\* " ".join(chunks)
RECURSIVE JoinChunks(_)
JoinChunks(chs) ==
    IF chs = <<>> THEN <<>>
    ELSE IF Len(chs) = 1 THEN chs[1]
    ELSE chs[1] \o <<Run(" ", 1)>> \o JoinChunks(Tail(chs))

\* A variant of the slice that keeps the whole text.
SliceKeepsAll(runs, k) == runs

\* text[:k]
RECURSIVE Slice(_, _)
Slice(runs, k) ==
    IF runs = <<>> \/ k = 0 THEN <<>>
    ELSE IF Head(runs).n <= k THEN <<Head(runs)>> \o Slice(Tail(runs), k - Head(runs).n)
    ELSE <<Run(Head(runs).c, k)>>

\* The chunks of the analysed document: a short one, and one of the
\* default maximum chunk size.
AnalysedChunks ==
    { <<Run("a", 1), Run(".", 1)>>,
      <<Run("b", DEFAULT_CHUNK_SIZE - 1), Run(".", 1)>> }

GeneralError == ErrorResult("Erro na analise")

\* Lines 362-376: the response text is returned as it came, unparsed.
GeneralResult(resp, label) ==
    IF resp.t = "fail" THEN GeneralError
    ELSE [analysis_type |-> label, results |-> resp]

GeneralResponses ==
    { TransportFailure, Unparseable, Json(JObj([analise |-> JStr("texto")])) }

\* ---- perform_detailed_analysis, lines 86-114, as steps between LLM requests ----

Await(what, i) ==
    /\ a_pc' = "await"
    /\ a_req' = Request(what, i)
    /\ a_result' = NoResult

Finish(result) ==
    /\ a_pc' = "returned"
    /\ a_req' = NoRequest
    /\ a_result' = Returned(result)

Raise ==
    /\ a_pc' = "raised"
    /\ a_req' = NoRequest
    /\ a_result' = Raised

\* Each Continue runs a strategy from the end of iteration i (0: from its
\* start) up to its next LLM request, its return or its uncaught exception.

ExecutiveContinue(sums, i) ==
    /\ summaries' = sums
    /\ IF i < a_n
       THEN Await("summary", i + 1) /\ all_lists' = all_lists
       ELSE LET c == Collect(sums)
            IN  /\ all_lists' = c.lists
                /\ IF c.raised THEN Raise ELSE Await("consolidation", 0)

DataContinue(ed, i) ==
    IF i < a_n THEN extracted_data' = ed /\ Await("extraction", i + 1)
    ELSE IF DedupRaises(ed) THEN extracted_data' = ed /\ Raise
    ELSE \E deduplicated \in Dedup(ed) :
            /\ extracted_data' = deduplicated
            /\ Finish(DataResult(deduplicated))

ClauseContinue(cls, i) ==
    /\ clauses' = cls
    /\ IF i < a_n THEN Await("clauses", i + 1) ELSE Finish(ClauseResult(cls))

TimelineContinue(evs, i) ==
    /\ events' = evs
    /\ IF i < a_n THEN Await("events", i + 1)
       ELSE IF SortRaises(evs) THEN Raise
       ELSE Finish(TimelineResult(evs))

\* The loop of lines 197-198 from topic j on; an exception raised by
\* _analyze_single_topic is caught at line 206.
TopicContinue(structure, analyses, j) ==
    LET main_topics == structure.v["main_topics"].v
    IN  /\ topics_structure' = structure
        /\ topic_analyses' = analyses
        /\ IF j > Len(main_topics) THEN Finish(TopicResult(structure, analyses))
           ELSE IF ~TopicUsable(main_topics[j]) THEN Finish(TopicError)
           ELSE Await("topic", j)

PerformDetailedAnalysis ==
    /\ a_pc = "call"
    /\ UNCHANGED <<a_kind, a_n, a_chunks, a_log>>
    /\ CASE a_kind = ExecutiveSummary ->
                /\ ExecutiveContinue(<<>>, 0)
                /\ UNCHANGED <<a_document, extracted_data, clauses, events, topics_structure,
                               topic_analyses>>
         [] a_kind = TopicAnalysis ->
                /\ Await("topics", 0)
                /\ UNCHANGED <<a_document, summaries, all_lists, extracted_data, clauses, events,
                               topics_structure, topic_analyses>>
         [] a_kind = DataExtraction ->
                /\ DataContinue(EmptyExtracted, 0)
                /\ UNCHANGED <<a_document, summaries, all_lists, clauses, events, topics_structure,
                               topic_analyses>>
         [] a_kind = ClauseAnalysis ->
                /\ ClauseContinue(<<>>, 0)
                /\ UNCHANGED <<a_document, summaries, all_lists, extracted_data, events,
                               topics_structure, topic_analyses>>
         [] a_kind = TimelineAnalysis ->
                /\ TimelineContinue(<<>>, 0)
                /\ UNCHANGED <<a_document, summaries, all_lists, extracted_data, clauses,
                               topics_structure, topic_analyses>>
         [] OTHER ->
                /\ a_document' = Slice(JoinChunks(a_chunks), GeneralLimit)
                /\ Await("general", 0)
                /\ UNCHANGED <<summaries, all_lists, extracted_data, clauses, events,
                               topics_structure, topic_analyses>>
    /\ UNCHANGED <<chunkVars, chatVars, appVars>>

Awaiting(what) == a_pc = "await" /\ a_req.what = what

Received(resp) ==
    /\ a_log' = Append(a_log, resp)
    /\ UNCHANGED <<a_kind, a_n, a_chunks, a_document>>
    /\ UNCHANGED <<chunkVars, chatVars, appVars>>

SummaryResponse ==
    /\ Awaiting("summary")
    /\ \E resp \in SummaryResponses :
        /\ Received(resp)
        /\ ExecutiveContinue(Append(summaries, ChunkSummary(resp, a_req.i)), a_req.i)
    /\ UNCHANGED <<extracted_data, clauses, events, topics_structure, topic_analyses>>

ConsolidationResponse ==
    /\ Awaiting("consolidation")
    /\ \E resp \in ConsolidationResponses :
        /\ Received(resp)
        /\ Finish(Consolidated(resp, all_lists))
    /\ UNCHANGED <<summaries, all_lists, extracted_data, clauses, events,
                   topics_structure, topic_analyses>>

ExtractionResponse ==
    /\ Awaiting("extraction")
    /\ \E resp \in DataResponses :
        /\ Received(resp)
        /\ DataContinue(MergeChunk(extracted_data, resp), a_req.i)
    /\ UNCHANGED <<summaries, all_lists, clauses, events, topics_structure,
                   topic_analyses>>

ClausesResponse ==
    /\ Awaiting("clauses")
    /\ \E resp \in ClauseResponses :
        /\ Received(resp)
        /\ ClauseContinue(AppendClause(clauses, resp, a_req.i), a_req.i)
    /\ UNCHANGED <<summaries, all_lists, extracted_data, events, topics_structure,
                   topic_analyses>>

EventsResponse ==
    /\ Awaiting("events")
    /\ \E resp \in TimelineResponses :
        /\ Received(resp)
        /\ TimelineContinue(ExtendEvents(events, resp), a_req.i)
    /\ UNCHANGED <<summaries, all_lists, extracted_data, clauses, topics_structure,
                   topic_analyses>>

TopicsResponse ==
    /\ Awaiting("topics")
    /\ \E resp \in TopicsResponses :
        /\ Received(resp)
        /\ IF TopicsUsable(resp)
           THEN TopicContinue(resp.v, <<>>, 1)
           ELSE Finish(TopicError) /\ UNCHANGED <<topics_structure, topic_analyses>>
    /\ UNCHANGED <<summaries, all_lists, extracted_data, clauses, events>>

TopicResponse ==
    /\ Awaiting("topic")
    /\ \E resp \in TopicResponses :
        LET topic == topics_structure.v["main_topics"].v[a_req.i].v
        IN  /\ Received(resp)
            /\ TopicContinue(topics_structure,
                             Assign(topic_analyses, topic, SingleTopic(resp, topic)),
                             a_req.i + 1)
    /\ UNCHANGED <<summaries, all_lists, extracted_data, clauses, events>>

GeneralResponse ==
    /\ Awaiting("general")
    /\ \E resp \in GeneralResponses :
        /\ Received(resp)
        /\ Finish(GeneralResult(resp, a_kind))
    /\ UNCHANGED <<summaries, all_lists, extracted_data, clauses, events,
                   topics_structure, topic_analyses>>

----------------------------------------------------------------------------
(* Text operations used by the chatbot *)

\* str.lower() on the letters of the modelled texts.
LowerChar(c) == IF c = "D" THEN "d" ELSE IF c = "C" THEN "c" ELSE c

Lower(s) == [i \in 1..Len(s) |-> LowerChar(s[i])]

\* str.split(): the maximal runs of non-whitespace characters.
RECURSIVE SplitFrom(_, _)
SplitFrom(t, cur) ==
    IF t = <<>> THEN IF cur = <<>> THEN <<>> ELSE <<cur>>
    ELSE IF Head(t) \in Whitespace
         THEN IF cur = <<>> THEN SplitFrom(Tail(t), <<>>)
              ELSE <<cur>> \o SplitFrom(Tail(t), <<>>)
         ELSE SplitFrom(Tail(t), Append(cur, Head(t)))

SplitWords(s) == SplitFrom(s, <<>>)

\* "word in text" between two strings: word occurs as a substring.
IsSubstring(word, text) ==
    \E i \in 0..(Len(text) - Len(word)) : SubSeq(text, i + 1, i + Len(word)) = word

\* TfidfVectorizer's tokens: the text lower-cased, its maximal runs of word
\* characters of length 2 or more (token_pattern \b\w\w+\b), English stop
\* words removed.
WordChars == {"a", "b", "c", "d", "e", "g", "m", "o", "t", "u"}

RECURSIVE RunsFrom(_, _)
RunsFrom(t, cur) ==
    IF t = <<>> THEN IF cur = <<>> THEN <<>> ELSE <<cur>>
    ELSE IF Head(t) \notin WordChars
         THEN IF cur = <<>> THEN RunsFrom(Tail(t), <<>>)
              ELSE <<cur>> \o RunsFrom(Tail(t), <<>>)
         ELSE RunsFrom(Tail(t), Append(cur, Head(t)))

StopWords == { <<"t", "o">>, <<"b", "e">> }

MinTokenLen == 2

IsTerm(w) == Len(w) >= MinTokenLen /\ w \notin StopWords

Terms(text) == SelectSeq(RunsFrom(Lower(text), <<>>), IsTerm)

Count(term, ts) == Cardinality({i \in 1..Len(ts) : ts[i] = term})

----------------------------------------------------------------------------
(* DocumentChatbot, chatbot.py *)

TopK == 5
CitedDocs == 3
RecentTurns == 3

\* self.tfidf_matrix is None
NoMatrix == [available |-> FALSE, vocabulary |-> {}, rows |-> <<>>]

\* The row of a text over a vocabulary: its term counts.  The idf weights
\* and the normalisation TfidfVectorizer applies are left to the library.
Vector(text, vocabulary) == [term \in vocabulary |-> Count(term, Terms(text))]

Vocabulary(texts) == UNION {Range(Terms(texts[i])) : i \in 1..Len(texts)}

\* A variant of lines 90-95 that keeps an index without terms.
FitTransformKeepsEmpty(texts) ==
    LET vocabulary == Vocabulary(texts)
    IN  [available |-> TRUE,
         vocabulary |-> vocabulary,
         rows |-> [i \in 1..Len(texts) |-> Vector(texts[i], vocabulary)]]

\* vectorizer.fit_transform(chunk_texts), lines 91-95: an empty vocabulary
\* raises ValueError and leaves the index unavailable.
FitTransform(texts) ==
    LET vocabulary == Vocabulary(texts)
    IN  IF vocabulary = {} THEN NoMatrix
        ELSE [available |-> TRUE,
              vocabulary |-> vocabulary,
              rows |-> [i \in 1..Len(texts) |-> Vector(texts[i], vocabulary)]]

ChunkTexts(chs) == [i \in 1..Len(chs) |-> chs[i].text]

\* A variant of _create_search_index that builds the index only once.
CreateSearchIndexOnce(chs, matrix) ==
    IF chs = <<>> \/ matrix.available THEN matrix ELSE FitTransform(ChunkTexts(chs))

\* _create_search_index, lines 81-95: nothing is done without chunks.
CreateSearchIndex(chs, matrix) ==
    IF chs = <<>> THEN matrix ELSE FitTransform(ChunkTexts(chs))

\* ---- process_folder, lines 25-79 ----

SupportedExtensions == {"pdf", "docx", "pptx"}

DocumentType(ext) ==
    IF ext = "pdf" THEN "PDF"
    ELSE IF ext = "docx" THEN "Word Document"
    ELSE "PowerPoint Presentation"

\* extract_text(file_path): the text and metadata of a readable file.
ExtractText(file) ==
    [full_text |-> file.text,
     metadata |-> [document_type |-> DocumentType(file.ext), total_pages |-> file.pages]]

DocInfo(file, content, chs) ==
    [filename |-> file.name,
     type |-> content.metadata.document_type,
     chunk_count |-> Len(chs),
     word_count |-> Len(SplitWords(content.full_text))]

ChunkInfos(file, content, chs) ==
    [i \in 1..Len(chs) |->
        [text |-> chs[i],
         document |-> file.name,
         chunk_id |-> i - 1,
         doc_type |-> content.metadata.document_type]]

\* A variant of the loop body: a file that cannot be read is still listed
\* as processed.
ProcessFileListsUnreadable(acc, file) ==
    IF file.ext \notin SupportedExtensions THEN acc
    ELSE LET content == ExtractText(file)
             chs == IF file.readable
                    THEN CreateChunks(content.full_text, content.metadata, DEFAULT_CHUNK_SIZE)
                    ELSE <<>>
         IN  [processed_docs |-> Append(acc.processed_docs, DocInfo(file, content, chs)),
              all_chunks |-> acc.all_chunks \o ChunkInfos(file, content, chs)]

\* Lines 38-70 for one file: an unsupported file is passed over, an
\* exception of extract_text leaves both lists as they were.
ProcessFile(acc, file) ==
    IF file.ext \notin SupportedExtensions THEN acc
    ELSE IF ~file.readable THEN acc
    ELSE LET content == ExtractText(file)
             chs == CreateChunks(content.full_text, content.metadata, DEFAULT_CHUNK_SIZE)
         IN  [processed_docs |-> Append(acc.processed_docs, DocInfo(file, content, chs)),
              all_chunks |-> acc.all_chunks \o ChunkInfos(file, content, chs)]

RECURSIVE ProcessFiles(_, _)
ProcessFiles(acc, files) ==
    IF files = <<>> THEN acc
    ELSE ProcessFiles(ProcessFile(acc, Head(files)), Tail(files))

\* process_folder(folder_path): the session fields and the return value.
ProcessFolder(folder, matrix) ==
    LET acc == ProcessFiles([processed_docs |-> <<>>, all_chunks |-> <<>>], folder)
    IN  [documents |-> acc.processed_docs,
         chunks |-> acc.all_chunks,
         tfidf_matrix |-> CreateSearchIndex(acc.all_chunks, matrix),
         count |-> Len(acc.processed_docs)]

\* ---- _search_relevant_chunks, lines 129-167, and _keyword_search, lines 169-186 ----

\* A similarity is kept as a fraction num/den with den > 0.
Frac(num, den) == [num |-> num, den |-> den]
FracLess(a, b) == a.num * b.den < b.num * a.den

WithSimilarity(chunk, sim) ==
    [text |-> chunk.text, document |-> chunk.document, chunk_id |-> chunk.chunk_id,
     doc_type |-> chunk.doc_type, similarity |-> sim]

Dot(u, w) ==
    LET RECURSIVE Sum(_)
        Sum(S) == IF S = {} THEN 0
                  ELSE LET x == CHOOSE y \in S : TRUE
                       IN  u[x] * w[x] + Sum(S \ {x})
    IN  Sum(DOMAIN u)

\* cosine_similarity(query_vector, row), line 150, as the fraction
\* dot^2 / (|q|^2 |row|^2): the square of the cosine, which orders the rows
\* as the cosine does because no weight is negative.  A zero vector has
\* similarity 0.
CosineSquared(q, row) ==
    IF Dot(q, q) = 0 \/ Dot(row, row) = 0 THEN Frac(0, 1)
    ELSE Frac(Dot(q, row) * Dot(q, row), Dot(q, q) * Dot(row, row))

\* similarities[idx] > 0.1, line 158, on the squared cosine.
ThresholdNum == 1
ThresholdDen == 100
AboveThreshold(sim) == FracLess(Frac(ThresholdNum, ThresholdDen), sim)

\* similarities.argsort(): the indices in ascending order of similarity,
\* equal similarities in index order.
RECURSIVE InsertAscending(_, _, _)
InsertAscending(sorted, idx, sims) ==
    IF sorted = <<>> THEN <<idx>>
    ELSE IF FracLess(sims[idx], sims[Head(sorted)])
         THEN <<idx>> \o sorted
         ELSE <<Head(sorted)>> \o InsertAscending(Tail(sorted), idx, sims)

RECURSIVE ArgSortUpTo(_, _)
ArgSortUpTo(sims, n) ==
    IF n = 0 THEN <<>> ELSE InsertAscending(ArgSortUpTo(sims, n - 1), n, sims)

ArgSort(sims) == ArgSortUpTo(sims, Len(sims))

Reverse(s) == [i \in 1..Len(s) |-> s[Len(s) + 1 - i]]

LastN(s, n) == IF Len(s) <= n THEN s ELSE SubSeq(s, Len(s) - n + 1, Len(s))

\* A variant of lines 145-163 without the threshold of line 158.
IndexSearchNoThreshold(chs, matrix, query, top_k) ==
    LET q == Vector(query, matrix.vocabulary)
        sims == [i \in 1..Len(matrix.rows) |-> CosineSquared(q, matrix.rows[i])]
        top_indices == Reverse(LastN(ArgSort(sims), top_k))
    IN  [i \in 1..Len(top_indices) |->
            WithSimilarity(chs[top_indices[i]], sims[top_indices[i]])]

\* Lines 145-163: the top_k rows by similarity, best first, those at or
\* under the threshold dropped.
IndexSearch(chs, matrix, query, top_k) ==
    LET q == Vector(query, matrix.vocabulary)
        sims == [i \in 1..Len(matrix.rows) |-> CosineSquared(q, matrix.rows[i])]
        top_indices == Reverse(LastN(ArgSort(sims), top_k))
        kept == SelectSeq(top_indices, LAMBDA idx : AboveThreshold(sims[idx]))
    IN  [i \in 1..Len(kept) |-> WithSimilarity(chs[kept[i]], sims[kept[i]])]

\* sum(word in text_lower for word in query_words), line 177
RECURSIVE KeywordScore(_, _)
KeywordScore(words, text_lower) ==
    IF words = <<>> THEN 0
    ELSE (IF IsSubstring(Head(words), text_lower) THEN 1 ELSE 0)
         + KeywordScore(Tail(words), text_lower)

\* list.sort(key=similarity, reverse=True) is stable: x goes after every
\* element that is not smaller.
RECURSIVE InsertDescending(_, _)
InsertDescending(sorted, x) ==
    IF sorted = <<>> THEN <<x>>
    ELSE IF FracLess(Head(sorted).similarity, x.similarity)
         THEN <<x>> \o sorted
         ELSE <<Head(sorted)>> \o InsertDescending(Tail(sorted), x)

RECURSIVE SortDescending(_)
SortDescending(s) ==
    IF s = <<>> THEN <<>>
    ELSE InsertDescending(SortDescending(SubSeq(s, 1, Len(s) - 1)), s[Len(s)])

\* A variant of _keyword_search that compares the words with the text as
\* written.
KeywordSearchCaseSensitive(chs, query, top_k) ==
    LET query_words == SplitWords(Lower(query))
        score(i) == KeywordScore(query_words, chs[i].text)
        hits == SelectSeq([i \in 1..Len(chs) |-> i], LAMBDA i : score(i) > 0)
        scored_chunks == [j \in 1..Len(hits) |->
                            WithSimilarity(chs[hits[j]],
                                           Frac(score(hits[j]), Len(query_words)))]
    IN  FirstN(SortDescending(scored_chunks), top_k)

\* _keyword_search(query, top_k)
KeywordSearch(chs, query, top_k) ==
    LET query_words == SplitWords(Lower(query))
        score(i) == KeywordScore(query_words, Lower(chs[i].text))
        hits == SelectSeq([i \in 1..Len(chs) |-> i], LAMBDA i : score(i) > 0)
        scored_chunks == [j \in 1..Len(hits) |->
                            WithSimilarity(chs[hits[j]],
                                           Frac(score(hits[j]), Len(query_words)))]
    IN  FirstN(SortDescending(scored_chunks), top_k)

\* _search_relevant_chunks(query): without an index, and when the index
\* search raises (lines 165-167: a row without a chunk), the keyword search
\* answers.
SearchRelevantChunks(chs, matrix, query) ==
    IF ~matrix.available THEN KeywordSearch(chs, query, TopK)
    ELSE IF Len(matrix.rows) > Len(chs) THEN KeywordSearch(chs, query, TopK)
    ELSE IndexSearch(chs, matrix, query, TopK)

\* ---- get_response, lines 97-127, and _generate_response, lines 188-260 ----

FixedMessage(text) == [kind |-> "fixed", text |-> text, docs |-> {}]
NoDocumentsMessage == FixedMessage("Nenhum documento foi processado ainda")
NoRelevantMessage == FixedMessage("Nao encontrei informacoes relevantes")
NoResponse == FixedMessage("")

\* Line 260: the message returned when the request raised.
ErrorMessage == [kind |-> "error", text |-> "Erro ao gerar resposta", docs |-> {}]

\* Lines 248-257: the answer with the footer naming the distinct documents.
AnswerWithFooter(answer, relevant) ==
    [kind |-> "answer", text |-> answer,
     docs |-> {relevant[i].document : i \in 1..Len(relevant)}]

\* A variant of the prompt that replays the whole history.
PromptReplaysAll(question, relevant, history) ==
    [context |-> [i \in 1..Len(relevant) |->
                    [document |-> relevant[i].document, text |-> relevant[i].text]],
     previous |-> [i \in 1..Len(history) |->
                     [question |-> history[i].question, response |-> history[i].response]],
     question |-> question]

\* Lines 200-235: the prompt names the relevant chunks, replays the most
\* recent turns and ends with the question.
Prompt(question, relevant, history) ==
    [context |-> [i \in 1..Len(relevant) |->
                    [document |-> relevant[i].document, text |-> relevant[i].text]],
     previous |-> LET recent == LastN(history, RecentTurns)
                  IN  [i \in 1..Len(recent) |->
                         [question |-> recent[i].question, response |-> recent[i].response]],
     question |-> question]

NoPrompt == [context |-> <<>>, previous |-> <<>>, question |-> <<>>]

\* _generate_response(question, relevant_chunks) for the outcome of its
\* one LLM request.
GenerateResponse(relevant, outcome) ==
    IF outcome.ok THEN AnswerWithFooter(outcome.answer, relevant) ELSE ErrorMessage

\* A variant of the turn of lines 121-125 that cites every relevant chunk.
TurnCitesAll(question, response, relevant) ==
    [question |-> question,
     response |-> response,
     relevant_docs |-> [i \in 1..Len(relevant) |-> relevant[i].document]]

\* Lines 121-125: the turn appended to the history.
Turn(question, response, relevant) ==
    [question |-> question,
     response |-> response,
     relevant_docs |-> LET cited == FirstN(relevant, CitedDocs)
                       IN  [i \in 1..Len(cited) |-> cited[i].document]]

\* A variant of get_response without the guard of line 108.
GetResponseUnguarded(chs, matrix, history, question, outcome) ==
    LET relevant == SearchRelevantChunks(chs, matrix, question)
    IN  IF relevant = <<>>
        THEN [response |-> NoRelevantMessage, history |-> history,
              llm_requests |-> 0, prompt |-> NoPrompt]
        ELSE LET response == GenerateResponse(relevant, outcome)
             IN  [response |-> response,
                  history |-> Append(history, Turn(question, response, relevant)),
                  llm_requests |-> 1,
                  prompt |-> Prompt(question, relevant, history)]

\* A variant of get_response that records a turn only for an answer.
GetResponseSkipsFailedTurn(chs, matrix, history, question, outcome) ==
    LET relevant == SearchRelevantChunks(chs, matrix, question)
    IN  IF chs = <<>>
        THEN [response |-> NoDocumentsMessage, history |-> history,
              llm_requests |-> 0, prompt |-> NoPrompt]
        ELSE IF relevant = <<>>
        THEN [response |-> NoRelevantMessage, history |-> history,
              llm_requests |-> 0, prompt |-> NoPrompt]
        ELSE LET response == GenerateResponse(relevant, outcome)
             IN  [response |-> response,
                  history |-> IF outcome.ok
                              THEN Append(history, Turn(question, response, relevant))
                              ELSE history,
                  llm_requests |-> 1,
                  prompt |-> Prompt(question, relevant, history)]

\* A variant of get_response that asks the LLM even when retrieval returned
\* nothing.
GetResponseAnswersWithoutContext(chs, matrix, history, question, outcome) ==
    LET relevant == SearchRelevantChunks(chs, matrix, question)
    IN  IF chs = <<>>
        THEN [response |-> NoDocumentsMessage, history |-> history,
              llm_requests |-> 0, prompt |-> NoPrompt]
        ELSE LET response == GenerateResponse(relevant, outcome)
             IN  [response |-> response,
                  history |-> Append(history, Turn(question, response, relevant)),
                  llm_requests |-> 1,
                  prompt |-> Prompt(question, relevant, history)]

\* A variant of get_response that keeps only the newest turn.
GetResponseKeepsNewestTurn(chs, matrix, history, question, outcome) ==
    LET relevant == SearchRelevantChunks(chs, matrix, question)
    IN  IF chs = <<>>
        THEN [response |-> NoDocumentsMessage, history |-> history,
              llm_requests |-> 0, prompt |-> NoPrompt]
        ELSE IF relevant = <<>>
        THEN [response |-> NoRelevantMessage, history |-> history,
              llm_requests |-> 0, prompt |-> NoPrompt]
        ELSE LET response == GenerateResponse(relevant, outcome)
             IN  [response |-> response,
                  history |-> <<Turn(question, response, relevant)>>,
                  llm_requests |-> 1,
                  prompt |-> Prompt(question, relevant, history)]

\* get_response(user_question): the returned message, the history after
\* the call, the number of LLM requests issued and the prompt sent.
GetResponse(chs, matrix, history, question, outcome) ==
    LET relevant == SearchRelevantChunks(chs, matrix, question)
    IN  IF chs = <<>>
        THEN [response |-> NoDocumentsMessage, history |-> history,
              llm_requests |-> 0, prompt |-> NoPrompt]
        ELSE IF relevant = <<>>
        THEN [response |-> NoRelevantMessage, history |-> history,
              llm_requests |-> 0, prompt |-> NoPrompt]
        ELSE LET response == GenerateResponse(relevant, outcome)
             IN  [response |-> response,
                  history |-> Append(history, Turn(question, response, relevant)),
                  llm_requests |-> 1,
                  prompt |-> Prompt(question, relevant, history)]

\* ---- the session: its fields, and the last call with what it returned ----

File(name, ext, text, readable) ==
    [name |-> name, ext |-> ext, text |-> text, pages |-> 1, readable |-> readable]

FileA(readable) == File("a.pdf", "pdf", <<"D", "o", "g", " ", "c", "a", "t">>, readable)
FileB(readable) == File("b.docx", "docx", <<"d", "o", "g", " ", "d", "o", "g">>, readable)
FileC(readable) == File("c.pptx", "pptx", <<"C", "a", "t", ".", " ", "d", "o", "g">>, readable)
FileD(readable) == File("d.pdf", "pdf", <<"d", "o", "g">>, readable)
FileS(readable) == File("s.docx", "docx", <<"t", "o", " ", "b", "e">>, readable)
FileE(readable) == File("e.pdf", "pdf", <<>>, readable)
FileN(readable) == File("n.txt", "txt", <<"d", "o", "g">>, readable)

\* ---- get_conversation_stats, lines 287-305 ----

NoStats == [none |-> TRUE]

RECURSIVE MentionedDocs(_)
MentionedDocs(history) ==
    IF history = <<>> THEN <<>>
    ELSE Head(history).relevant_docs \o MentionedDocs(Tail(history))

RECURSIVE FirstMentions(_, _)
FirstMentions(seen, docs) ==
    IF docs = <<>> THEN seen
    ELSE FirstMentions(IF \E i \in 1..Len(seen) : seen[i] = Head(docs)
                       THEN seen ELSE Append(seen, Head(docs)),
                       Tail(docs))

\* Lines 294-299: the documents by number of mentions, most mentioned
\* first, equally mentioned ones in the order of their first mention.
MostUsedDocs(history) ==
    LET docs == MentionedDocs(history)
        keys == FirstMentions(<<>>, docs)
        mentions(i) == Cardinality({k \in 1..Len(docs) : docs[k] = keys[i]})
        place(i) == 1 + Cardinality({j \in 1..Len(keys) :
                                        \/ mentions(j) > mentions(i)
                                        \/ mentions(j) = mentions(i) /\ j < i})
    IN  [k \in 1..Len(keys) |->
            LET i == CHOOSE i \in 1..Len(keys) : place(i) = k
            IN  [document |-> keys[i], mentions |-> mentions(i)]]

\* get_conversation_stats()
ConversationStats(history) ==
    IF history = <<>> THEN [total_questions |-> 0]
    ELSE [total_questions |-> Len(history),
          most_consulted_docs |-> FirstN(MostUsedDocs(history), CitedDocs),
          avg_docs_per_question |-> Frac(Len(MentionedDocs(history)), Len(history))]

\* The folders ingested, each in the order rglob yields its files: without
\* a supported file, with one corrupt file among three, with four documents
\* on one subject, with only stop words, with an empty document, and with
\* nothing readable.
Folders ==
    { <<FileN(TRUE)>>,
      <<FileA(TRUE), FileB(FALSE), FileC(TRUE)>>,
      <<FileA(TRUE), FileB(TRUE), FileN(TRUE), FileC(TRUE), FileD(TRUE)>>,
      <<FileS(TRUE)>>,
      <<FileE(TRUE), FileS(TRUE)>>,
      <<FileE(TRUE)>>,
      <<FileB(FALSE), FileD(FALSE)>>,
      <<FileD(FALSE), FileB(TRUE)>> }

Questions == { <<"D", "o", "g">>, <<"e", "m", "u">> }

Outcomes == { [ok |-> TRUE, answer |-> "resposta"], [ok |-> FALSE, answer |-> ""] }
NoOutcome == [ok |-> FALSE, answer |-> "nenhum"]

MaxTurns == 2

\* A variant of process_folder on the session that adds the new documents
\* and chunks to those held.
IngestAppends(folder) ==
    LET r == ProcessFolder(folder, tfidf_matrix)
    IN  /\ documents' = documents \o r.documents
        /\ chunks' = chunks \o r.chunks
        /\ tfidf_matrix' = CreateSearchIndex(chunks \o r.chunks, tfidf_matrix)
        /\ ret_count' = r.count
        /\ folder_arg' = folder
        /\ last_op' = "process_folder"
        /\ llm_requests' = 0
        /\ UNCHANGED <<conversation_history, asked, ret_response, llm_outcome,
                       llm_prompt, query_arg, ret_chunks, ret_stats>>
        /\ UNCHANGED <<chunkVars, analysisVars, appVars>>

\* process_folder(folder_path) on the session
Ingest(folder) ==
    LET r == ProcessFolder(folder, tfidf_matrix)
    IN  /\ documents' = r.documents
        /\ chunks' = r.chunks
        /\ tfidf_matrix' = r.tfidf_matrix
        /\ ret_count' = r.count
        /\ folder_arg' = folder
        /\ last_op' = "process_folder"
        /\ llm_requests' = 0
        /\ UNCHANGED <<conversation_history, asked, ret_response, llm_outcome,
                       llm_prompt, query_arg, ret_chunks, ret_stats>>
        /\ UNCHANGED <<chunkVars, analysisVars, appVars>>

CallProcessFolder == \E folder \in Folders : Ingest(folder)

\* get_response(user_question) on the session, for one of the questions,
\* while the history holds fewer than limit turns.
Ask(questions, limit) ==
    /\ Len(conversation_history) < limit
    /\ \E question \in questions, outcome \in Outcomes :
        LET r == GetResponse(chunks, tfidf_matrix, conversation_history, question, outcome)
        IN  /\ conversation_history' = r.history
            /\ ret_response' = r.response
            /\ llm_requests' = r.llm_requests
            /\ llm_outcome' = IF r.llm_requests = 0 THEN NoOutcome ELSE outcome
            /\ llm_prompt' = r.prompt
            /\ asked' = question
            /\ last_op' = "get_response"
            /\ UNCHANGED <<documents, chunks, tfidf_matrix, folder_arg, ret_count,
                           query_arg, ret_chunks, ret_stats>>
            /\ UNCHANGED <<chunkVars, analysisVars, appVars>>

CallGetResponse == Ask(Questions, MaxTurns)

\* clear_history, lines 283-285
CallClearHistory ==
    /\ conversation_history' = <<>>
    /\ last_op' = "clear_history"
    /\ llm_requests' = 0
    /\ UNCHANGED <<documents, chunks, tfidf_matrix, folder_arg, ret_count, asked,
                   ret_response, llm_outcome, llm_prompt, query_arg, ret_chunks,
                   ret_stats>>
    /\ UNCHANGED <<chunkVars, analysisVars, appVars>>

\* ---- a long conversation: one folder, asks, and the statistics ----

MaxHistory == 5

HistoryFolder == <<FileA(TRUE), FileB(FALSE), FileC(TRUE)>>

HistoryQuestions == Questions \cup { <<"c", "a", "t">> }

HistoryIngest == Ingest(HistoryFolder)

HistoryAsk == Ask(HistoryQuestions, MaxHistory)

CallGetConversationStats ==
    /\ ret_stats' = ConversationStats(conversation_history)
    /\ last_op' = "get_conversation_stats"
    /\ llm_requests' = 0
    /\ UNCHANGED <<documents, chunks, tfidf_matrix, conversation_history, folder_arg,
                   ret_count, asked, ret_response, llm_outcome, llm_prompt, query_arg,
                   ret_chunks>>
    /\ UNCHANGED <<chunkVars, analysisVars, appVars>>

\* ---- retrieval on the session: process_folder and _search_relevant_chunks ----

\* Eight one-chunk documents about "dog", "cat" and "emu": for the query
\* "dog" seven rows are similar, one of them under the threshold, and
\* several are equally similar.
IndexedFolder ==
    << File("i1.pdf", "pdf", <<"d", "o", "g">>, TRUE),
       File("i2.pdf", "pdf", <<"d", "o", "g", " ", "c", "a", "t">>, TRUE),
       File("i3.pdf", "pdf", <<"c", "a", "t">>, TRUE),
       File("i4.pdf", "pdf", <<"D", "o", "g", " ", "d", "o", "g">>, TRUE),
       File("i5.pdf", "pdf", <<"d", "o", "g", " ", "c", "a", "t", " ", "c", "a", "t">>, TRUE),
       File("i6.pdf", "pdf", <<"c", "a", "t", " ", "d", "o", "g">>, TRUE),
       File("i7.pdf", "pdf", <<"d", "o", "g", " ", "e", "m", "u">>, TRUE),
       File("i8.pdf", "pdf", <<"d", "o", "g", " ", "c", "a", "t", " ", "c", "a", "t", " ", "c", "a", "t", " ", "c", "a", "t", " ", "c", "a", "t", " ", "c", "a", "t", " ", "c", "a", "t", " ", "c", "a", "t", " ", "c", "a", "t", " ", "c", "a", "t">>, TRUE) >>

\* Seven one-chunk documents of one-letter words and stop words: the
\* vectorizer finds no term in them.
StopWordFolder ==
    << File("k1.pdf", "pdf", <<"c", " ", "d">>, TRUE),
       File("k2.pdf", "pdf", <<"D">>, TRUE),
       File("k3.pdf", "pdf", <<"c">>, TRUE),
       File("k4.pdf", "pdf", <<"d", " ", "c">>, TRUE),
       File("k5.pdf", "pdf", <<"t", "o", " ", "c">>, TRUE),
       File("k6.pdf", "pdf", <<"b", "e", " ", "d">>, TRUE),
       File("k7.pdf", "pdf", <<"t", "o", " ", "b", "e">>, TRUE) >>

SearchFolders ==
    { IndexedFolder,
      StopWordFolder,
      <<FileN(TRUE)>>,
      <<FileA(TRUE), FileB(FALSE), FileC(TRUE)>> }

SearchQueries ==
    { <<"d", "o", "g">>,
      <<"c", "a", "t", " ", "e", "m", "u">>,
      <<"C", " ", "d">>,
      <<"c", " ", "t", "o">>,
      <<"t", "o">>,
      <<"C", "a", "t">>,
      <<>> }

SearchIngest == \E folder \in SearchFolders : Ingest(folder)

\* _search_relevant_chunks(query) called on the session, top_k defaulted
CallSearchRelevantChunks ==
    \E query \in SearchQueries :
        /\ ret_chunks' = SearchRelevantChunks(chunks, tfidf_matrix, query)
        /\ query_arg' = query
        /\ last_op' = "_search_relevant_chunks"
        /\ llm_requests' = 0
        /\ UNCHANGED <<documents, chunks, tfidf_matrix, conversation_history, folder_arg,
                       ret_count, asked, ret_response, llm_outcome, llm_prompt,
                       ret_stats>>
        /\ UNCHANGED <<chunkVars, analysisVars, appVars>>

----------------------------------------------------------------------------
(* The Streamlit script, app.py, and check_openai_config, config.py.       *)
(* One action is one run of the script: Streamlit runs main() again on     *)
(* every interaction, keeping st.session_state and os.environ.             *)

\* os.getenv("OPENAI_API_KEY") is None
NoKey == <<"N", "o", "n", "e">>

KeyPrefix == <<"s", "k", "-">>

\* str.startswith(prefix)
StartsWith(s, prefix) == Len(s) >= Len(prefix) /\ SubSeq(s, 1, Len(prefix)) = prefix

\* check_openai_config(), config.py:26-28, on the key in force
CheckOpenAIConfig(key) == key # NoKey /\ StartsWith(key, KeyPrefix)

\* What the user may type in the sidebar: nothing, a string that is no
\* OpenAI key, a well-formed key.
TypedKeys == { <<>>, <<"a", "b", "c">>, <<"s", "k", "-", "1">> }

NoUpload == [name |-> "", readable |-> FALSE]
Uploads ==
    { NoUpload,
      [name |-> "x.pdf", readable |-> TRUE],
      [name |-> "y.docx", readable |-> TRUE],
      [name |-> "z.pptx", readable |-> FALSE] }

\* st.session_state.text_content / document_analysis: None, or the value
\* computed from the named file.
NoTextContent == [file |-> ""]
NoDocumentAnalysis == [file |-> "", source |-> "none"]

\* Lines 61-84: the typed key is exported when it is not empty, and main()
\* returns before any mode runs when it is empty.  Nothing else looks at
\* the key.
KeyAfterInput(env, api_key) == IF api_key # <<>> THEN api_key ELSE env

Proceeds(api_key) == api_key # <<>>

Input(mode, file, pressed) == [mode |-> mode, file |-> file, pressed |-> pressed]
NoInput == Input("none", "", FALSE)

Ran(stages, outcome) ==
    /\ app_stages' = stages
    /\ app_outcome' = outcome

\* Lines 82-84
MainReturnsEarly ==
    \E api_key \in TypedKeys :
        /\ ~Proceeds(api_key)
        /\ env_key' = KeyAfterInput(env_key, api_key)
        /\ Ran(<<>>, "no key")
        /\ app_input' = NoInput
        /\ UNCHANGED <<current_file, processing_state, text_content, document_analysis,
                       chatbot_ready>>
        /\ UNCHANGED <<chunkVars, analysisVars, chatVars>>

\* A variant of the test of lines 113-114 that never sees another file.
FileChangedNever(upload) == FALSE

\* Lines 113-118: the state is reset when another file is selected.
FileChanged(upload) == current_file # upload.name

\* document_analysis_mode, lines 91-126, with process_document, lines 128-205.
\* Streamlit runs the script once for each interaction: the run that follows
\* the selection of a file finds no button pressed.
DocumentAnalysisRun ==
    \E api_key \in TypedKeys, upload \in Uploads, pressed \in BOOLEAN,
       structure_ok \in BOOLEAN :
        LET state == IF FileChanged(upload) THEN "initial" ELSE processing_state
        IN  /\ Proceeds(api_key)
            /\ pressed => (upload # NoUpload /\ ~FileChanged(upload))
            /\ app_input' = Input("document", upload.name, pressed)
            /\ env_key' = KeyAfterInput(env_key, api_key)
            /\ chatbot_ready' = chatbot_ready
            /\ UNCHANGED <<chunkVars, analysisVars, chatVars>>
            /\ IF upload = NoUpload
               THEN /\ Ran(<<>>, "no file")
                    /\ UNCHANGED <<current_file, processing_state, text_content,
                                   document_analysis>>
               ELSE /\ current_file' = upload.name
                    /\ IF state = "initial"
                       THEN IF ~pressed
                            THEN /\ Ran(<<>>, "waiting")
                                 /\ processing_state' = "initial"
                                 /\ text_content' =
                                        IF FileChanged(upload) THEN NoTextContent
                                        ELSE text_content
                                 /\ document_analysis' =
                                        IF FileChanged(upload) THEN NoDocumentAnalysis
                                        ELSE document_analysis
                            ELSE IF ~upload.readable
                            THEN \* extract_text raises, line 157, caught at 168
                                 /\ Ran(<<"extraction">>, "error shown")
                                 /\ processing_state' = "initial"
                                 /\ text_content' =
                                        IF FileChanged(upload) THEN NoTextContent
                                        ELSE text_content
                                 /\ document_analysis' =
                                        IF FileChanged(upload) THEN NoDocumentAnalysis
                                        ELSE document_analysis
                            ELSE \* lines 157-166, then st.rerun()
                                 /\ Ran(<<"extraction", "structure">>, "rerun")
                                 /\ text_content' = [file |-> upload.name]
                                 /\ document_analysis' =
                                        [file |-> upload.name,
                                         source |-> IF structure_ok THEN "llm"
                                                    ELSE "fallback"]
                                 /\ processing_state' = "analyzed"
                       ELSE \* lines 180-205: the form; submitting it calls
                            \* perform_detailed_analysis of line 226 with three
                            \* of its five parameters, a TypeError.
                            /\ IF pressed THEN Ran(<<>>, "TypeError")
                               ELSE Ran(<<>>, "form shown")
                            /\ UNCHANGED <<processing_state, text_content,
                                           document_analysis>>

\* chatbot_mode, lines 251-293, with setup_chatbot, lines 295-311
ChatbotRun ==
    \E api_key \in TypedKeys, zip \in BOOLEAN, clicked \in BOOLEAN, asks \in BOOLEAN :
        LET setup == zip /\ clicked
            ready == chatbot_ready \/ setup
        IN  /\ Proceeds(api_key)
            /\ env_key' = KeyAfterInput(env_key, api_key)
            /\ chatbot_ready' = ready
            /\ app_input' = Input("chatbot", "", clicked \/ asks)
            /\ UNCHANGED <<chunkVars, analysisVars, chatVars>>
            /\ Ran((IF setup THEN <<"ingest">> ELSE <<>>)
                     \o (IF ready /\ asks THEN <<"ask">> ELSE <<>>),
                   IF ready /\ asks THEN "rerun" ELSE "shown")
            /\ UNCHANGED <<current_file, processing_state, text_content,
                           document_analysis>>

----------------------------------------------------------------------------
(* Specifications: each component is exercised on its own, the others idle *)

ChunkIdle ==
    /\ full_text = <<>>
    /\ metadata = [document_type |-> "Word Document", total_pages |-> 0]
    /\ max_chunk_size = DEFAULT_CHUNK_SIZE
    /\ chunks_out = <<>>
    /\ cpc = "idle"

AnalysisIdle ==
    /\ a_kind = ExecutiveSummary
    /\ a_n = 0
    /\ a_chunks = <<>>
    /\ a_document = <<>>
    /\ a_pc = "idle"
    /\ a_req = NoRequest
    /\ a_log = <<>>
    /\ summaries = <<>>
    /\ all_lists = EmptyLists
    /\ extracted_data = EmptyExtracted
    /\ clauses = <<>>
    /\ events = <<>>
    /\ topics_structure = EmptyObj
    /\ topic_analyses = <<>>
    /\ a_result = NoResult

ChatIdle ==
    /\ documents = <<>>
    /\ chunks = <<>>
    /\ tfidf_matrix = NoMatrix
    /\ conversation_history = <<>>
    /\ last_op = "idle"
    /\ folder_arg = <<>>
    /\ ret_count = 0
    /\ asked = <<>>
    /\ ret_response = NoResponse
    /\ llm_requests = 0
    /\ llm_outcome = NoOutcome
    /\ llm_prompt = NoPrompt
    /\ query_arg = <<>>
    /\ ret_chunks = <<>>
    /\ ret_stats = NoStats

AppIdle ==
    /\ env_key = NoKey
    /\ current_file = ""
    /\ processing_state = "initial"
    /\ text_content = NoTextContent
    /\ document_analysis = NoDocumentAnalysis
    /\ chatbot_ready = FALSE
    /\ app_stages = <<>>
    /\ app_outcome = "idle"
    /\ app_input = NoInput

ChunkInit ==
    /\ full_text \in Texts
    /\ metadata \in Metadatas
    /\ max_chunk_size \in 1..MaxSize \cup {DEFAULT_CHUNK_SIZE}
    /\ chunks_out = <<>>
    /\ cpc = "call"
    /\ AnalysisIdle /\ ChatIdle /\ AppIdle

CallCreateChunks ==
    /\ cpc = "call"
    /\ chunks_out' = CreateChunks(full_text, metadata, max_chunk_size)
    /\ max_chunk_size' = EffectiveMax(metadata, max_chunk_size)
    /\ cpc' = "done"
    /\ UNCHANGED <<full_text, metadata>>
    /\ UNCHANGED <<analysisVars, chatVars, appVars>>

ChunkNext == CallCreateChunks

SpecChunk == ChunkInit /\ [][ChunkNext]_vars

AnalysisInit ==
    /\ a_kind \in Kinds
    /\ a_n \in 0..MaxChunks
    /\ a_chunks \in [1..a_n -> AnalysedChunks]
    /\ a_document = <<>>
    /\ a_pc = "call"
    /\ a_req = NoRequest
    /\ a_log = <<>>
    /\ summaries = <<>>
    /\ all_lists = EmptyLists
    /\ extracted_data = EmptyExtracted
    /\ clauses = <<>>
    /\ events = <<>>
    /\ topics_structure = EmptyObj
    /\ topic_analyses = <<>>
    /\ a_result = NoResult
    /\ ChunkIdle /\ ChatIdle /\ AppIdle

AnalysisNext ==
    \/ PerformDetailedAnalysis
    \/ SummaryResponse
    \/ ConsolidationResponse
    \/ TopicsResponse
    \/ TopicResponse
    \/ ExtractionResponse
    \/ ClausesResponse
    \/ EventsResponse
    \/ GeneralResponse

SpecAnalysis == AnalysisInit /\ [][AnalysisNext]_vars

\* __init__, chatbot.py:15-23
ChatInit ==
    /\ documents = <<>>
    /\ chunks = <<>>
    /\ tfidf_matrix = NoMatrix
    /\ conversation_history = <<>>
    /\ last_op = "__init__"
    /\ folder_arg = <<>>
    /\ ret_count = 0
    /\ asked = <<>>
    /\ ret_response = NoResponse
    /\ llm_requests = 0
    /\ llm_outcome = NoOutcome
    /\ llm_prompt = NoPrompt
    /\ query_arg = <<>>
    /\ ret_chunks = <<>>
    /\ ret_stats = NoStats
    /\ ChunkIdle /\ AnalysisIdle /\ AppIdle

ChatNext ==
    \/ CallProcessFolder
    \/ CallGetResponse
    \/ CallClearHistory

SpecChat == ChatInit /\ [][ChatNext]_vars

HistoryNext ==
    \/ HistoryIngest
    \/ HistoryAsk
    \/ CallGetConversationStats

SpecHistory == ChatInit /\ [][HistoryNext]_vars

SearchNext ==
    \/ SearchIngest
    \/ CallSearchRelevantChunks

SpecSearch == ChatInit /\ [][SearchNext]_vars

\* The process starts with the key of its environment, if any, and an
\* empty session state.
AppInit ==
    /\ env_key \in {NoKey} \cup (TypedKeys \ {<<>>})
    /\ current_file = ""
    /\ processing_state = "initial"
    /\ text_content = NoTextContent
    /\ document_analysis = NoDocumentAnalysis
    /\ chatbot_ready = FALSE
    /\ app_stages = <<>>
    /\ app_outcome = "start"
    /\ app_input = NoInput
    /\ ChunkIdle /\ AnalysisIdle /\ ChatIdle

AppNext ==
    \/ MainReturnsEarly
    \/ DocumentAnalysisRun
    \/ ChatbotRun

SpecApp == AppInit /\ [][AppNext]_vars

----------------------------------------------------------------------------
(* Properties of create_chunks *)

\* The non-empty trimmed sentence candidates of a text, in order.
RECURSIVE StripAll(_)
StripAll(ss) == IF ss = <<>> THEN <<>> ELSE <<Strip(Head(ss))>> \o StripAll(Tail(ss))

NonEmpty(s) == s # <<>>

SentencesOf(text) == SelectSeq(StripAll(ReSplit(text)), NonEmpty)

EffMax == EffectiveMax(metadata, max_chunk_size)

\* C1: every returned chunk has length <= the effective maximum chunk size,
\* unless it consists of exactly one sentence whose own length exceeds the
\* maximum.
C1_ChunkWithinMax ==
    cpc = "done" =>
        \A i \in 1..Len(chunks_out) :
            \/ Len(chunks_out[i]) <= EffMax
            \/ /\ Len(SentencesOf(chunks_out[i])) = 1
               /\ Len(SentencesOf(chunks_out[i])[1]) > EffMax

\* C2: the sentences of the returned chunks, read in chunk order with the
\* inserted ". " separators ignored, are exactly the non-empty trimmed
\* sentence candidates of the input, in the original order.
RECURSIVE ChunkSentences(_)
ChunkSentences(cs) ==
    IF cs = <<>> THEN <<>> ELSE SentencesOf(Head(cs)) \o ChunkSentences(Tail(cs))

C2_SentencesPreserved ==
    cpc = "done" => ChunkSentences(chunks_out) = SentencesOf(full_text)

\* A run in which a sentence did not fit: two chunks come back, the first
\* of them holding two sentences.
C2_Witness ==
    /\ cpc = "done"
    /\ Len(chunks_out) = 2
    /\ Len(SentencesOf(chunks_out[1])) = 2
    /\ Len(SentencesOf(full_text)) = 3


\* C23: create_chunks chunks with the maximum it was given, 4000 when the
\* caller gives none, widened before chunking to 5000 when the metadata
\* indicates more than 50 pages and to 6000 when it indicates more than 100
\* pages (only the metadata of a PDF carries a page count); nothing else
\* changes the maximum.
C23_MaxWidenedByPages ==
    [][cpc' = "done" =>
          max_chunk_size' =
              IF metadata.total_pages > HugeDocPages THEN HugeDocChunkSize
              ELSE IF metadata.total_pages > LargeDocPages THEN LargeDocChunkSize
              ELSE max_chunk_size]_vars

\* The default maximum on a document of exactly 50 pages: not widened.
C23_Witness ==
    /\ cpc = "done"
    /\ metadata.total_pages = LargeDocPages
    /\ max_chunk_size = DEFAULT_CHUNK_SIZE
    /\ chunks_out # <<>>

\* The text holds nothing but whitespace and sentence terminators.
BlankText(text) == \A i \in 1..Len(text) : text[i] \in {" ", ".", "?"}

\* C24: create_chunks on a text that is empty, or holds only whitespace and
\* sentence terminators, returns the empty sequence, and no chunk returned
\* for any text is empty.
C24_NoEmptyChunk ==
    cpc = "done" =>
        /\ BlankText(full_text) => chunks_out = <<>>
        /\ \A i \in 1..Len(chunks_out) : chunks_out[i] # <<>>

\* A text of terminators and blanks only, chunked: nothing comes back.
C24_Witness ==
    /\ cpc = "done"
    /\ Len(full_text) = 3
    /\ BlankText(full_text)
    /\ \E i \in 1..Len(full_text) : full_text[i] = " "
    /\ \E i \in 1..Len(full_text) : full_text[i] \in {".", "?"}
    /\ chunks_out = <<>>

----------------------------------------------------------------------------
(* Properties of perform_detailed_analysis *)

\* C3: whatever the analysis kind, the number of chunks and the outcomes of
\* the LLM requests, perform_detailed_analysis returns a result and never
\* raises an exception to its caller.
C3_NeverRaises == a_pc # "raised"

\* The extraction of a chunk fails: the request fails, its text does not
\* parse, or merging the parsed response raises.
ExtractionFails(resp) ==
    \/ NoValue(resp)
    \/ resp.v.t \in {"num", "null"}
    \/ /\ resp.v.t = "obj"
       /\ \E key \in Range(Categories) \cap DOMAIN resp.v.v : ~Iterable(resp.v.v[key])

\* The values a successfully extracted chunk holds for a category.
Extracted(resp, key) ==
    IF resp.v.t = "obj" /\ key \in DOMAIN resp.v.v THEN Range(resp.v.v[key].v) ELSE {}

\* C4: in Data Extraction a chunk whose extraction fails contributes no
\* value to any category, and the other chunks contribute what they would
\* without it: every category of the result holds exactly the values
\* extracted by the chunks that did not fail.
C4_FailedChunkContributesNothing ==
    (a_kind = DataExtraction /\ a_pc = "returned") =>
        \A key \in Range(Categories) :
            Range(a_result.value.extracted_data[key]) =
                UNION {Extracted(a_log[i], key) :
                         i \in {j \in 1..Len(a_log) : ~ExtractionFails(a_log[j])}}

\* Every LLM request of the analysis ended in a transport failure.
AllRequestsFailed ==
    /\ a_log # <<>>
    /\ \A i \in 1..Len(a_log) : a_log[i] = TransportFailure

\* C11: for every analysis kind, when every LLM request of the analysis
\* fails, perform_detailed_analysis returns a result that carries an
\* "error" cause.
C11_AllFailedGivesError ==
    (a_pc = "returned" /\ AllRequestsFailed) => "error" \in DOMAIN a_result.value

\* The items chunk i gave for a field of its summary: those of the parsed
\* response, or those of the fallback summary of a failed request.
ItemsOfChunk(i, field) ==
    IF NoValue(a_log[i])
    THEN IF field = "main_points"
         THEN <<JStr("Resumo do trecho " \o ToString(i))>>
         ELSE <<>>
    ELSE IF field \in DOMAIN a_log[i].v.v THEN a_log[i].v.v[field].v ELSE <<>>

\* The items collected for a field over chunks 1..n, in chunk order and
\* then in the order of the chunk's list.
RECURSIVE CollectedUpTo(_, _)
CollectedUpTo(n, field) ==
    IF n = 0 THEN <<>> ELSE CollectedUpTo(n - 1, field) \o ItemsOfChunk(n, field)

ConsolidationFailed ==
    /\ a_kind = ExecutiveSummary
    /\ a_pc = "returned"
    /\ Len(a_log) = a_n + 1
    /\ NoValue(a_log[a_n + 1])

\* C12: in Executive Summary, when the consolidation request fails, the
\* result is the default: key_findings the first 5 collected main points,
\* important_metrics the first 5 collected data items, main_conclusions the
\* first 3 collected conclusions, with a placeholder summary string.
C12_DefaultOnFailedConsolidation ==
    ConsolidationFailed =>
        LET points == CollectedUpTo(a_n, "main_points")
            data == CollectedUpTo(a_n, "important_data")
            conclusions == CollectedUpTo(a_n, "conclusions")
            Take(s, n) == [i \in 1..(IF Len(s) < n THEN Len(s) ELSE n) |-> s[i]]
        IN  /\ a_result.value.key_findings = Take(points, 5)
            /\ a_result.value.important_metrics = Take(data, 5)
            /\ a_result.value.main_conclusions = Take(conclusions, 3)
            /\ a_result.value.executive_summary
                 = "Resumo nao disponivel devido a erro de processamento"

\* Three chunks, the second answered by a failed request, gave 7 main
\* points and 4 conclusions; the default keeps the first 5 and the first 3.
C12_Witness ==
    /\ ConsolidationFailed
    /\ a_n = 3
    /\ NoValue(a_log[2])
    /\ Len(CollectedUpTo(a_n, "main_points")) = 7
    /\ Len(CollectedUpTo(a_n, "conclusions")) = 4
    /\ Len(a_result.value.key_findings) = 5
    /\ a_result.value.key_findings[4] = JStr("Resumo do trecho 2")
    /\ Len(a_result.value.main_conclusions) = 3

\* C13: in Data Extraction every category of the result holds every value
\* extracted for it by a chunk whose extraction succeeded, and holds no
\* value twice.
C13_EachValueOnce ==
    (a_kind = DataExtraction /\ a_pc = "returned") =>
        \A key \in Range(Categories) :
            LET final == a_result.value.extracted_data[key]
            IN  /\ \A i, j \in 1..Len(final) : final[i] = final[j] => i = j
                /\ \A c \in 1..Len(a_log) :
                      ~ExtractionFails(a_log[c]) =>
                          Extracted(a_log[c], key) \subseteq Range(final)

\* Three chunks extracted the date 2024-01-01 and the result holds it once.
C13_Witness ==
    /\ a_kind = DataExtraction
    /\ a_pc = "returned"
    /\ a_n = 3
    /\ \A c \in 1..3 :
          ~ExtractionFails(a_log[c]) /\ JStr("2024-01-01") \in Extracted(a_log[c], "dates")
    /\ LET final == a_result.value.extracted_data["dates"]
       IN  Cardinality({i \in 1..Len(final) : final[i] = JStr("2024-01-01")}) = 1

\* The events of a chunk's response: none when the request failed, when
\* the text did not parse or when extending the list raised.
EventsOfChunk(resp) ==
    IF NoValue(resp) THEN <<>>
    ELSE IF resp.v.t # "obj" THEN <<>>
    ELSE IF "events" \notin DOMAIN resp.v.v THEN <<>>
    ELSE IF resp.v.v["events"].t # "list" THEN <<>>
    ELSE resp.v.v["events"].v

Occurrences(x, s) == Cardinality({i \in 1..Len(s) : s[i] = x})

RECURSIVE OccurrencesInChunks(_, _)
OccurrencesInChunks(x, n) ==
    IF n = 0 THEN 0
    ELSE OccurrencesInChunks(x, n - 1) + Occurrences(x, EventsOfChunk(a_log[n]))

\* The raw date of an event, "" for an event without one.
DateOf(event) == IF "date" \in DOMAIN event.v THEN event.v["date"] ELSE JStr("")

\* a comes no later than b: lexically between strings, numerically between
\* numbers.
NotAfter(a, b) ==
    IF a.t = "str" /\ b.t = "str" THEN DateRank(a.v) <= DateRank(b.v)
    ELSE a.t = b.t /\ a.v <= b.v

TimelineReturned == a_kind = TimelineAnalysis /\ a_pc = "returned"

\* C14: the final timeline holds exactly the events returned for the
\* successfully processed chunks, each as often as it was returned, in
\* ascending order of the raw date.
C14_TimelineSortedUnion ==
    TimelineReturned =>
        LET timeline == a_result.value.timeline
            returned == UNION {Range(EventsOfChunk(a_log[c])) : c \in 1..Len(a_log)}
        IN  /\ \A e \in Range(timeline) \cup returned :
                  Occurrences(e, timeline) = OccurrencesInChunks(e, Len(a_log))
            /\ \A i \in 1..(Len(timeline) - 1) :
                  NotAfter(DateOf(timeline[i]), DateOf(timeline[i + 1]))

\* The dates 2024-03-01 of one chunk and 2024-02-10, 2024-01-15 of another
\* come out as 2024-01-15, 2024-02-10, 2024-03-01.
C14_Witness ==
    /\ TimelineReturned
    /\ Len(a_log) = 2
    /\ Len(EventsOfChunk(a_log[1])) = 1
    /\ DateOf(EventsOfChunk(a_log[1])[1]) = JStr("2024-03-01")
    /\ Len(a_result.value.timeline) = 3
    /\ [i \in 1..3 |-> DateOf(a_result.value.timeline[i])]
         = <<JStr("2024-01-15"), JStr("2024-02-10"), JStr("2024-03-01")>>

\* The chunks of a Clause Analysis whose response was parsed and tagged.
ClauseChunks == {i \in 1..Len(a_log) : a_log[i].t = "json" /\ a_log[i].v.t = "obj"}

ClauseReturned == a_kind = ClauseAnalysis /\ a_pc = "returned"

\* C15: the clause list holds one record per successfully processed chunk,
\* in chunk order, and none for a failing chunk; the section of a record is
\* the 1-based position of its chunk in the document, so the sections are
\* strictly increasing.
C15_SectionIsChunkPosition ==
    ClauseReturned =>
        LET cls == a_result.value.clauses
            ChunkAt(k) == CHOOSE i \in ClauseChunks :
                              Cardinality({j \in ClauseChunks : j < i}) = k - 1
        IN  /\ Len(cls) = Cardinality(ClauseChunks)
            /\ \A k \in 1..Len(cls) :
                  /\ cls[k]["section"] = JNum(ChunkAt(k))
                  /\ \A f \in DOMAIN a_log[ChunkAt(k)].v.v \ {"section"} :
                        cls[k][f] = a_log[ChunkAt(k)].v.v[f]
            /\ \A k \in 1..(Len(cls) - 1) : cls[k]["section"].v < cls[k + 1]["section"].v

\* The first of three chunks failed: two records, of sections 2 and 3.
C15_Witness ==
    /\ ClauseReturned
    /\ a_n = 3
    /\ 1 \notin ClauseChunks
    /\ Len(a_result.value.clauses) = 2
    /\ a_result.value.clauses[1]["section"] = JNum(2)
    /\ a_result.value.clauses[2]["section"] = JNum(3)

\* The topic list of a Topic Analysis was obtained.
TopicsObtained ==
    /\ a_kind = TopicAnalysis
    /\ a_pc = "returned"
    /\ TopicsUsable(a_log[1])

\* C16: once the topic list was obtained, a failure while analysing one
\* main topic leaves the analysis a result with a record for every topic:
\* the placeholder record for a topic whose request failed, the parsed
\* record for every other topic that is a string.
C16_TopicFailureIsLocal ==
    TopicsObtained =>
        LET topics == a_log[1].v.v["main_topics"].v
        IN  /\ "topic_analyses" \in DOMAIN a_result.value
            /\ Len(a_log) = 1 + Len(topics)
            /\ \A j \in 1..Len(topics) :
                  topics[j].t = "str" =>
                      /\ topics[j].v \in DOMAIN a_result.value.topic_analyses
                      /\ a_result.value.topic_analyses[topics[j].v] =
                            IF NoValue(a_log[1 + j])
                            THEN JObj([summary |-> JStr("Analise do topico " \o topics[j].v),
                                       key_points |-> JList(<<>>),
                                       details |-> JList(<<>>),
                                       related_data |-> JList(<<>>)])
                            ELSE a_log[1 + j].v

PerChunkKinds == {ExecutiveSummary, DataExtraction, ClauseAnalysis, TimelineAnalysis}

ChunkRequests == {"summary", "extraction", "clauses", "events"}

\* C25: in a per-chunk strategy the request waited for is the request of the
\* chunk after those already answered, in document order; a strategy that
\* has left its loop has issued one request for each of its n chunks
\* whatever their outcomes; and the Executive Summary ends having issued
\* n + 1 requests, the last of them the consolidation request.
C25_OneRequestPerChunk ==
    a_kind \in PerChunkKinds =>
        /\ (a_pc = "await" /\ a_req.what \in ChunkRequests) =>
              /\ a_req.i = Len(a_log) + 1
              /\ a_req.i <= a_n
        /\ Awaiting("consolidation") => Len(a_log) = a_n
        /\ a_pc \in {"returned", "raised"} =>
              Len(a_log) = IF a_kind = ExecutiveSummary THEN a_n + 1 ELSE a_n

\* Text a is the beginning of text b, both as runs.
RunPrefix(a, b) ==
    \/ a = <<>>
    \/ /\ Len(a) <= Len(b)
       /\ \A i \in 1..(Len(a) - 1) : a[i] = b[i]
       /\ a[Len(a)].c = b[Len(a)].c
       /\ a[Len(a)].n <= b[Len(a)].n

\* C27: a label that is none of the five kinds goes to the general
\* strategy: exactly one LLM request, whose prompt holds the first 8000
\* characters of the chunks joined by blanks; the response text is returned
\* as it came, unparsed, tagged with the requested label, and a failed
\* request gives an error-tagged result.
C27_GeneralStrategy ==
    (a_kind \notin FixedKinds /\ a_pc # "call") =>
        LET joined == JoinChunks(a_chunks)
        IN  /\ a_pc \in {"await", "returned"}
            /\ RunPrefix(a_document, joined)
            /\ TextLen(a_document) = Min(GeneralLimit, TextLen(joined))
            /\ a_pc = "await" => a_req = Request("general", 0) /\ a_log = <<>>
            /\ a_pc = "returned" =>
                  /\ Len(a_log) = 1
                  /\ IF a_log[1] = TransportFailure
                     THEN IsError(a_result.value)
                     ELSE a_result.value = [analysis_type |-> a_kind, results |-> a_log[1]]

\* The first kind written without capitals, over two chunks of the default
\* maximum size: the joined text of 8001 characters is cut to 8000, and the
\* response that is no JSON comes back as the result.
C27_Witness ==
    /\ a_kind = "resumo executivo"
    /\ a_pc = "returned"
    /\ a_n = 2
    /\ TextLen(JoinChunks(a_chunks)) = GeneralLimit + 1
    /\ TextLen(a_document) = GeneralLimit
    /\ a_log = <<Unparseable>>
    /\ a_result.value = [analysis_type |-> a_kind, results |-> Unparseable]

----------------------------------------------------------------------------
(* Properties of the chatbot session *)

Last(s) == s[Len(s)]

\* C5: after any sequence of process_folder calls the index is unavailable
\* or was built from the chunk list held: one row per chunk, row i the
\* vector of chunk i.
C5_IndexMatchesChunks ==
    tfidf_matrix.available =>
        /\ Len(tfidf_matrix.rows) = Len(chunks)
        /\ \A i \in 1..Len(chunks) :
              tfidf_matrix.rows[i] = Vector(chunks[i].text, tfidf_matrix.vocabulary)

\* The supported files of a folder that can be read.
Processable(file) == file.ext \in SupportedExtensions /\ file.readable

ChunksOfFile(file) ==
    LET content == ExtractText(file)
    IN  ChunkInfos(file, content,
                   CreateChunks(content.full_text, content.metadata, DEFAULT_CHUNK_SIZE))

RECURSIVE ChunksOfFiles(_)
ChunksOfFiles(files) ==
    IF files = <<>> THEN <<>> ELSE ChunksOfFile(Head(files)) \o ChunksOfFiles(Tail(files))

\* C6: process_folder returns the number of files processed successfully,
\* goes on after each failing file, and leaves the session with the
\* documents and the chunks of the successfully processed files only.
C6_FailedFilesSkipped ==
    last_op = "process_folder" =>
        LET good == SelectSeq(folder_arg, Processable)
        IN  /\ ret_count = Len(good)
            /\ Len(documents) = Len(good)
            /\ \A i \in 1..Len(good) : documents[i].filename = good[i].name
            /\ chunks = ChunksOfFiles(good)

\* One corrupt file among three: count 2, and the chunks of the two valid
\* files, the one after the corrupt file included.
C6_Witness ==
    /\ last_op = "process_folder"
    /\ Len(folder_arg) = 3
    /\ Cardinality({i \in 1..3 : ~folder_arg[i].readable}) = 1
    /\ ~folder_arg[2].readable
    /\ ret_count = 2
    /\ {chunks[i].document : i \in 1..Len(chunks)} = {folder_arg[1].name, folder_arg[3].name}

\* C7: get_response on a session without chunks returns the fixed "no
\* documents processed" message, issues no LLM request and leaves the
\* conversation history as it was.
C7_NoChunksNoRequest ==
    [][(last_op' = "get_response" /\ chunks = <<>>) =>
          /\ ret_response' = NoDocumentsMessage
          /\ llm_requests' = 0
          /\ conversation_history' = conversation_history]_vars

\* An ask after an ingest that processed a document and produced no chunk.
C7_Witness ==
    /\ last_op = "get_response"
    /\ chunks = <<>>
    /\ documents # <<>>
    /\ ret_response = NoDocumentsMessage
    /\ llm_requests = 0

LlmFailed == llm_requests = 1 /\ ~llm_outcome.ok

\* C8 as stated: when the LLM request fails, get_response returns an
\* error-tagged message and no turn holding the error message as its answer
\* is in the history.
C8_NoFailedTurnStored ==
    /\ (last_op = "get_response" /\ LlmFailed) => ret_response.kind = "error"
    /\ \A i \in 1..Len(conversation_history) :
          conversation_history[i].response.kind # "error"

\* C8 amended: when the LLM request fails, get_response returns an
\* error-tagged message instead of raising, and exactly one turn is appended
\* to the history, holding the question and that error message as its answer.
C8_FailedTurnStored ==
    [][(last_op' = "get_response" /\ llm_requests' = 1 /\ ~llm_outcome'.ok) =>
          /\ ret_response' = ErrorMessage
          /\ Len(conversation_history') = Len(conversation_history) + 1
          /\ SubSeq(conversation_history', 1, Len(conversation_history))
                = conversation_history
          /\ Last(conversation_history').question = asked'
          /\ Last(conversation_history').response = ret_response']_vars

\* A failed request whose error message is the answer of the last turn.
C8_Witness ==
    /\ last_op = "get_response"
    /\ LlmFailed
    /\ ret_response.kind = "error"
    /\ conversation_history # <<>>
    /\ Last(conversation_history).response.kind = "error"

\* C9: a get_response call that reaches answer generation appends exactly
\* one turn to the end of the history, whether or not the LLM request
\* succeeded: the question, the returned answer, and the documents of at most
\* the 3 highest-ranked retrieved chunks in rank order.  A call that returns
\* a fixed message appends nothing.
C9_OneTurnPerGeneratedAnswer ==
    [][last_op' = "get_response" =>
          LET relevant == SearchRelevantChunks(chunks, tfidf_matrix, asked')
              cited == FirstN(relevant, CitedDocs)
          IN  IF chunks # <<>> /\ relevant # <<>>
              THEN /\ llm_requests' = 1
                   /\ ret_response'.kind \in {"answer", "error"}
                   /\ conversation_history' =
                        Append(conversation_history,
                               [question |-> asked',
                                response |-> ret_response',
                                relevant_docs |->
                                    [i \in 1..Len(cited) |-> cited[i].document]])
              ELSE /\ ret_response'.kind = "fixed"
                   /\ conversation_history' = conversation_history]_vars

\* A second turn, appended after a failed request, citing 3 of 4 retrieved
\* chunks.
C9_Witness ==
    /\ last_op = "get_response"
    /\ LlmFailed
    /\ Len(conversation_history) = 2
    /\ Len(SearchRelevantChunks(chunks, tfidf_matrix, asked)) = 4
    /\ Len(Last(conversation_history).relevant_docs) = 3
    /\ Last(conversation_history).response = ret_response

\* C21: get_response on a session that holds chunks, when retrieval returns
\* no relevant chunk for the question, returns the fixed "no relevant
\* information found" message, issues no LLM request and appends no turn.
C21_NoRelevantNoRequest ==
    [][(/\ last_op' = "get_response"
        /\ chunks # <<>>
        /\ SearchRelevantChunks(chunks, tfidf_matrix, asked') = <<>>) =>
          /\ ret_response' = NoRelevantMessage
          /\ llm_requests' = 0
          /\ llm_prompt' = NoPrompt
          /\ conversation_history' = conversation_history]_vars

\* A question that no chunk of the indexed session matches, asked after a
\* turn was recorded: the fixed message, no request, the one turn still held.
C21_Witness ==
    /\ last_op = "get_response"
    /\ chunks # <<>>
    /\ tfidf_matrix.available
    /\ SearchRelevantChunks(chunks, tfidf_matrix, asked) = <<>>
    /\ ret_response = NoRelevantMessage
    /\ llm_requests = 0
    /\ Len(conversation_history) = 1

IsPrefix(s, t) == Len(s) <= Len(t) /\ SubSeq(t, 1, Len(s)) = s

\* C22 as stated: across any sequence of session operations the history
\* before an operation is a prefix of the history after it.
C22_AppendOnly ==
    [][IsPrefix(conversation_history, conversation_history')]_vars

\* C22 amended: get_response and process_folder leave the history before
\* them as a prefix of the history after them, get_response adding at most
\* one turn and process_folder none; clear_history is the one operation that
\* removes turns, and it leaves the history empty.
C22_AppendOnlyUntilCleared ==
    [][/\ last_op' = "get_response" =>
            /\ IsPrefix(conversation_history, conversation_history')
            /\ Len(conversation_history') <= Len(conversation_history) + 1
       /\ last_op' = "process_folder" => conversation_history' = conversation_history
       /\ last_op' = "clear_history" => conversation_history' = <<>>]_vars

\* clear_history called after an ask was answered and recorded: the history
\* is empty although the answer was returned.
C22_Witness ==
    /\ last_op = "clear_history"
    /\ conversation_history = <<>>
    /\ ret_response.kind = "answer"
    /\ llm_outcome.ok

\* C26: the prompt of an ask on a history of n turns holds the question and
\* answer of exactly the min(3, n) most recent turns, oldest first, and of
\* no older turn; the older turns stay in the history, and
\* get_conversation_stats counts every turn held.
C26_PromptReplaysRecentTurns ==
    [][/\ (last_op' = "get_response" /\ llm_requests' = 1) =>
            LET n == Len(conversation_history)
                replayed == Min(RecentTurns, n)
            IN  /\ Len(llm_prompt'.previous) = replayed
                /\ \A k \in 1..replayed :
                      /\ llm_prompt'.previous[k].question
                            = conversation_history[n - replayed + k].question
                      /\ llm_prompt'.previous[k].response
                            = conversation_history[n - replayed + k].response
                /\ SubSeq(conversation_history', 1, n) = conversation_history
       /\ last_op' = "get_conversation_stats" =>
            /\ ret_stats'.total_questions = Len(conversation_history)
            /\ conversation_history' = conversation_history]_vars

\* The statistics taken after an ask on a history of four turns: the prompt
\* replayed turns 2 to 4, the first of which differs from turn 1, and the
\* statistics count all five turns.
C26_Witness ==
    /\ last_op = "get_conversation_stats"
    /\ Len(conversation_history) = 5
    /\ ret_stats.total_questions = 5
    /\ llm_requests = 0
    /\ Len(llm_prompt.previous) = 3
    /\ llm_prompt.previous[1].question = conversation_history[2].question
    /\ llm_prompt.previous[1].response = conversation_history[2].response
    /\ llm_prompt.previous[3].question = conversation_history[4].question
    /\ conversation_history[1].question # conversation_history[2].question

\* C30: a process_folder call leaves the session with the documents and the
\* chunks of the folder it was given and nothing of an earlier ingest, and
\* leaves the conversation history as it was.
C30_IngestReplaces ==
    [][last_op' = "process_folder" =>
          LET good == SelectSeq(folder_arg', Processable)
          IN  /\ Len(documents') = Len(good)
              /\ \A i \in 1..Len(good) : documents'[i].filename = good[i].name
              /\ chunks' = ChunksOfFiles(good)
              /\ \A i \in 1..Len(chunks') :
                    \E j \in 1..Len(folder_arg') : chunks'[i].document = folder_arg'[j].name
              /\ conversation_history' = conversation_history]_vars

\* A second folder ingested after a turn was recorded: the session holds
\* the one document of the new folder, and the turn still cites a document
\* of the earlier one.
C30_Witness ==
    /\ last_op = "process_folder"
    /\ Len(documents) = 1
    /\ chunks # <<>>
    /\ \A i \in 1..Len(chunks) : chunks[i].document = documents[1].filename
    /\ conversation_history # <<>>
    /\ \E d \in Range(conversation_history[1].relevant_docs) : d # documents[1].filename

----------------------------------------------------------------------------
(* Properties of retrieval *)

Searched == last_op = "_search_relevant_chunks"

\* The lower-cased whitespace-split words of the query of the last search.
QueryWords == SplitWords(Lower(query_arg))

\* The number of query words that occur in the lower-cased text of chunk i.
WordsFound(i) ==
    Cardinality({k \in 1..Len(QueryWords) :
                    IsSubstring(QueryWords[k], Lower(chunks[i].text))})

KeywordHits == {i \in 1..Len(chunks) : WordsFound(i) > 0}

\* Chunk j is ranked before chunk i: a higher score, or the same score and
\* an earlier place in the chunk list.
RankedBefore(j, i) ==
    \/ WordsFound(j) > WordsFound(i)
    \/ WordsFound(j) = WordsFound(i) /\ j < i

\* The hit with k - 1 hits ranked before it.
HitAt(k) ==
    CHOOSE i \in KeywordHits : Cardinality({j \in KeywordHits : RankedBefore(j, i)}) = k - 1

\* C17: with the index unavailable, a query returns the chunks in which a
\* query word occurs, each with the fraction of the query words found in it
\* as its score, the best 5 of them, in descending order of score, equal
\* scores in the order of the chunk list.
C17_KeywordFallback ==
    (Searched /\ ~tfidf_matrix.available) =>
        /\ Len(ret_chunks) = IF Cardinality(KeywordHits) < 5
                             THEN Cardinality(KeywordHits) ELSE 5
        /\ \A k \in 1..Len(ret_chunks) :
              /\ ret_chunks[k].text = chunks[HitAt(k)].text
              /\ ret_chunks[k].document = chunks[HitAt(k)].document
              /\ ret_chunks[k].chunk_id = chunks[HitAt(k)].chunk_id
              /\ ret_chunks[k].similarity.num * Len(QueryWords)
                   = WordsFound(HitAt(k)) * ret_chunks[k].similarity.den

\* Six chunks hold a word of the query "C d"; five come back, the two that
\* hold both words first with score 1, the chunk "D" third.
C17_Witness ==
    /\ Searched
    /\ ~tfidf_matrix.available
    /\ Len(QueryWords) = 2
    /\ Cardinality(KeywordHits) = 6
    /\ Len(ret_chunks) = 5
    /\ ret_chunks[1].similarity.num = ret_chunks[1].similarity.den
    /\ ret_chunks[1].document = "k1.pdf"
    /\ ret_chunks[2].document = "k4.pdf"
    /\ ret_chunks[3].document = "k2.pdf"

\* The index answers the query: it is available and has a row per chunk.
IndexAnswers ==
    /\ Searched
    /\ tfidf_matrix.available
    /\ Len(tfidf_matrix.rows) = Len(chunks)

\* The similarity of chunk i to the query of the last search.
SimilarityOf(i) ==
    CosineSquared(Vector(query_arg, tfidf_matrix.vocabulary),
                  Vector(chunks[i].text, tfidf_matrix.vocabulary))

\* similarity > 0.1, on the squared cosine the model keeps
Over01(sim) == sim.num * 100 > sim.den

\* C18: with the index available a query returns at most 5 chunks, each
\* with a similarity over 0.1, in descending order of similarity, and none
\* that 5 or more chunks exceed in similarity.
C18_TopKOverThreshold ==
    IndexAnswers =>
        /\ Len(ret_chunks) <= 5
        /\ \A k \in 1..Len(ret_chunks) :
              /\ Over01(ret_chunks[k].similarity)
              /\ \E i \in 1..Len(chunks) :
                    /\ ret_chunks[k].document = chunks[i].document
                    /\ ret_chunks[k].chunk_id = chunks[i].chunk_id
                    /\ ret_chunks[k].text = chunks[i].text
                    /\ ret_chunks[k].similarity = SimilarityOf(i)
                    /\ Cardinality({j \in 1..Len(chunks) :
                                       FracLess(SimilarityOf(i), SimilarityOf(j))}) < 5
        /\ \A k \in 1..(Len(ret_chunks) - 1) :
              ~FracLess(ret_chunks[k].similarity, ret_chunks[k + 1].similarity)

\* Seven of eight chunks are similar to the query, six of them over the
\* threshold; five come back.
C18_Witness ==
    /\ IndexAnswers
    /\ Len(chunks) = 8
    /\ Cardinality({i \in 1..8 : SimilarityOf(i).num > 0}) = 7
    /\ Cardinality({i \in 1..8 : Over01(SimilarityOf(i))}) = 6
    /\ Len(ret_chunks) = 5
    /\ FracLess(ret_chunks[5].similarity, ret_chunks[1].similarity)

\* C19: an index that cannot be built for the chunks held (no term in any
\* chunk) is left unavailable, and a query on a session whose index is
\* unavailable, or whose index search raises, returns what the keyword
\* search returns.
C19_BuildFailureFallsBack ==
    /\ (chunks # <<>> /\ \A i \in 1..Len(chunks) : Terms(chunks[i].text) = <<>>)
          => ~tfidf_matrix.available
    /\ (Searched /\ (~tfidf_matrix.available \/ Len(tfidf_matrix.rows) > Len(chunks)))
          => ret_chunks = KeywordSearch(chunks, query_arg, TopK)

\* A query answered by the keyword search after an ingest whose chunks gave
\* the vectorizer no term.
C19_Witness ==
    /\ Searched
    /\ ret_count = 7
    /\ Len(chunks) = 7
    /\ \A i \in 1..Len(chunks) : Terms(chunks[i].text) = <<>>
    /\ ~tfidf_matrix.available
    /\ ret_chunks # <<>>

\* C20: the result of a query is the result a new session gives that holds
\* the same chunks and builds its index from them, and is the result the
\* session gives after building its index again.
C20_SameChunksSameResult ==
    Searched =>
        /\ ret_chunks = SearchRelevantChunks(chunks, CreateSearchIndex(chunks, NoMatrix),
                                             query_arg)
        /\ ret_chunks = SearchRelevantChunks(chunks,
                                             CreateSearchIndex(chunks, tfidf_matrix),
                                             query_arg)

\* A query with five results of eight chunks, the first two of them equally
\* similar and the last less similar.
C20_Witness ==
    /\ Searched
    /\ tfidf_matrix.available
    /\ Len(chunks) = 8
    /\ Len(ret_chunks) = 5
    /\ ~FracLess(ret_chunks[2].similarity, ret_chunks[1].similarity)
    /\ FracLess(ret_chunks[5].similarity, ret_chunks[2].similarity)
    /\ {ret_chunks[1].document, ret_chunks[2].document} = {"i1.pdf", "i4.pdf"}

----------------------------------------------------------------------------
(* Properties of the application *)

\* C10: no run of the application enters a pipeline stage (extraction,
\* chunking, indexing, an LLM request) with a credential that fails the
\* configuration check.
C10_CredentialCheckedFirst ==
    app_stages # <<>> => CheckOpenAIConfig(env_key)

\* The form of lines 190-205 is submitted: the run is in document mode with
\* the analysed file still selected and the form's button pressed.
FormSubmitted ==
    /\ processing_state = "analyzed"
    /\ app_input'.mode = "document"
    /\ app_input'.file = current_file
    /\ app_input'.pressed

\* C28: a run in which the form is submitted in the 'analyzed' state enters
\* the detailed analysis with the stored text and the selected kind, hands
\* its result to the spreadsheet renderer, and ends without an exception.
C28_SubmittedFormRunsAnalysis ==
    [][FormSubmitted =>
          /\ app_stages' = <<"detailed analysis", "spreadsheet">>
          /\ app_outcome' # "TypeError"]_vars

====
